---- MODULE Spec2Model ----
(***************************************************************************)
(* Model of the git-handler of qiros-server: the commit engine             *)
(* (commitMultipleFiles), the single-file synchronizer (syncFile) and the  *)
(* POST /sync endpoint, running as concurrent requests against one remote  *)
(* repository of the hosting provider.                                     *)
(*                                                                         *)
(* The provider keeps content-addressed objects: a blob SHA stands for the *)
(* bytes of the blob, a tree SHA for the path->blob mapping, a commit SHA  *)
(* is fresh for every created commit.  Every remote call is one atomic     *)
(* step at the provider; requests interleave freely between their calls.   *)
(***************************************************************************)
EXTENDS Integers, Sequences, FiniteSets, TLC

\* ------------------------------------------------------------------ bounds
NumData == 2        \* distinct file contents a caller may send
MaxFiles == 2       \* longest file list given to commitMultipleFiles
MaxCommits == 4     \* commits the repository may hold (initial ones included)
MaxUrlLen == 4      \* longest pathname of a URL, in tokens after the leading "/"

Reqs == {"r1", "r2"}                 \* concurrent requests (one operation each)
Branches == {"main", "dev"}          \* "main" exists initially, "dev" does not
Paths == {"character.json", "card.png", "README.md"}
TrackedPaths == {"character.json", "card.png"}
Data == 0..(NumData - 1)           \* 0: the bytes the initial commit holds

None == <<"none">>                   \* undefined / absent
OldBytes == <<"raw", 0>>                  \* bytes of the files of the initial commit

BlobSha(bytes) == <<"blob", bytes>>
TreeSha(t) == <<"tree", t>>
CommitSha(n) == <<"commit", n>>

VARIABLES refs, commits, blobs, trees, enforceFF, req, log,
          releases, loggedInUser, sessionFile, loggedOut

provider == <<refs, commits, blobs, trees, enforceFF>>
\* what the operations on branches leave alone: the releases of the
\* repository, the user of the server process and its session file
rest == <<releases, loggedInUser, sessionFile, loggedOut>>
vars == <<refs, commits, blobs, trees, enforceFF, req, log, releases, loggedInUser, sessionFile,
          loggedOut>>

Users == {"u1", "u2"}                \* GitHub users; a user's token is named by the user
NoUser == "null"                     \* loggedInUser = null
NoFile == "ENOENT"                   \* the session file does not exist
NoToken == "notoken"                 \* a session object without accessToken

\* variant: the test looks at loggedInUser only
AuthenticatedAnyUser == loggedInUser # NoUser

\* the test of ensureAuthenticated: loggedInUser && loggedInUser.accessToken
Authenticated == loggedInUser \in Users

\* no release yet; user u1 is logged in and the session file holds the login;
\* loggedOut records that a logout was answered and no login callback has set
\* the user since
RestInit ==
  /\ releases = <<>>
  /\ loggedInUser = "u1"
  /\ sessionFile = "u1"
  /\ loggedOut = FALSE

\* ------------------------------------------------------- content encoding
\* A caller's content is a Buffer (buf = TRUE) or a string; data are its bytes.
Buf(d) == [buf |-> TRUE, data |-> d]
Str(d) == [buf |-> FALSE, data |-> d]

\* Buffer.toString("base64") / Buffer.from(s, "utf-8").toString("base64")
Base64(bytes) == <<"b64", bytes>>

\* what the provider stores for a (content, encoding) pair
Decode(content, encoding) ==
  IF encoding = "base64"
  THEN IF Len(content) = 2 /\ content[1] = "b64" THEN content[2] ELSE <<"garbage", content>>
  ELSE content

\* commitMultipleFiles: content and encoding of the createBlob call of a file
BlobContent(file) ==
  IF file.content.buf THEN Base64(<<"raw", file.content.data>>) ELSE <<"raw", file.content.data>>

BlobEncoding(file) == IF file.content.buf THEN "base64" ELSE "utf-8"

\* syncFile: the content field of createOrUpdateFileContents (always base64)
SyncContent(content) == Base64(<<"raw", content.data>>)

\* the bytes a caller means by a content value
BytesOf(content) == <<"raw", content.data>>

\* ----------------------------------------------------------- provider side
CommitOf(sha) == commits[sha[2]]
TreeOf(tsha) == tsha[2]
HeadTree(b) == TreeOf(CommitOf(refs[b]).tree)

\* the blob at a path of the head of a branch; None when either is missing
FileAt(b, p) == IF refs[b] = None THEN None ELSE HeadTree(b)[p]

\* a tree entry as commitMultipleFiles builds it
TreeEntry(path, sha) == [path |-> path, mode |-> "100644", type |-> "blob", sha |-> sha]

\* createTree(base_tree, tree): the base tree with the named paths replaced
MergeTree(base, items) ==
  [p \in Paths |->
     IF \E i \in 1..Len(items) : items[i].path = p
     THEN items[CHOOSE i \in 1..Len(items) : items[i].path = p].sha
     ELSE base[p]]

RECURSIVE IsAncestor(_, _)
\* a is b or an ancestor of b
IsAncestor(a, b) ==
  IF a = b THEN TRUE
  ELSE \E i \in 1..Len(CommitOf(b).parents) : IsAncestor(a, CommitOf(b).parents[i])

\* updateRef({ref, sha}) without force: accepted unless the provider enforces
\* fast-forward updates and the new commit does not descend from the old head
RefUpdateAccepted(cur, new, force) ==
  force \/ ~enforceFF \/ IsAncestor(cur, new)

\* createOrUpdateFileContents: the provider's check of the sha parameter
ShaCheckPasses(cur, sha) == cur = sha

\* ---------------------------------------------------------- request state
IdleReq ==
  [op |-> "none", pc |-> "idle", endpoint |-> "none", branch |-> "main", files |-> <<>>,
   art |-> None, raced |-> FALSE, after |-> "none",
   targetCommitSha |-> None, characterJsonContent |-> None, cardPngContent |-> None,
   repoUrl |-> "repo", baseBranchName |-> <<>>, readmeContent |-> <<>>, fromCommitSha |-> None,
   href |-> [ok |-> FALSE, pathname |-> <<>>],
   hash |-> None, fileName |-> "none",
   headers |-> [csrf |-> <<>>, cookie |-> <<>>],
   user |-> NoUser, version |-> "none", releaseId |-> 0, cardPngBuffer |-> None,
   response |-> [status |-> 0, message |-> "none", details |-> None],
   latestCommitSha |-> None, baseTreeSha |-> None, blobSt |-> <<>>, blobRes |-> <<>>,
   newTree |-> None, newCommit |-> None, fileSha |-> None, result |-> None]

\* one remote call of a request: the endpoint, its parameters, the outcome and
\* the value the provider returned
Call(api, arg, res, ret) == [api |-> api, arg |-> arg, res |-> res, ret |-> ret]

\* variant: the operation stays where it is after a rejected call and issues
\* the call again
FailAndRetry(c, api, arg, res) ==
  /\ req' = [req EXCEPT ![c].result = res]
  /\ log' = [log EXCEPT ![c] = Append(@, Call(api, arg, res, None))]

Fail(c, api, arg, res) ==
  /\ req' = [req EXCEPT ![c].pc = "failed", ![c].result = res]
  /\ log' = [log EXCEPT ![c] = Append(@, Call(api, arg, res, None))]

\* file lists: up to MaxFiles files with distinct tracked paths; the image is
\* a Buffer and the document a string, as the calling domain passes them
ContentsFor(p) == IF p = "card.png" THEN {Buf(d) : d \in Data} ELSE {Str(d) : d \in Data}
FilesFor(p) == {[path |-> p, content |-> k] : k \in ContentsFor(p)}
AllFiles == UNION {FilesFor(p) : p \in TrackedPaths}
FileLists ==
  {fs \in UNION {[1..n -> AllFiles] : n \in 0..MaxFiles} :
     \A i, j \in 1..Len(fs) : i # j => fs[i].path # fs[j].path}

InitTrees ==
  { [p \in Paths |-> IF p = "README.md" THEN BlobSha(OldBytes) ELSE None],
    [p \in Paths |-> BlobSha(OldBytes)] }

Init ==
  /\ \E t \in InitTrees :
       /\ trees = {TreeSha(t)}
       /\ commits = <<[tree |-> TreeSha(t), parents |-> <<>>, message |-> "Initial commit"]>>
  /\ blobs = {BlobSha(OldBytes)}
  /\ refs = [b \in Branches |-> IF b = "main" THEN CommitSha(1) ELSE None]
  /\ enforceFF \in BOOLEAN
  /\ req = [c \in Reqs |-> IdleReq]
  /\ log = [c \in Reqs |-> <<>>]
  /\ RestInit

\* ------------------------------------------------------ commitMultipleFiles
commitMultipleFiles(c, b, fs) ==
  /\ req[c].pc = "idle"
  /\ req' = [req EXCEPT ![c] = [IdleReq EXCEPT !.op = "commit", !.pc = "getRef",
                                               !.branch = b, !.files = fs]]
  /\ UNCHANGED <<provider, rest, log>>

\* step 1a: octokit.git.getRef
commitMultipleFiles_getRef(c) ==
  LET r == req[c] IN
  /\ r.op = "commit" /\ r.pc = "getRef"
  /\ IF refs[r.branch] = None
     THEN Fail(c, "getRef", r.branch, "notfound")
     ELSE \/ /\ req' = [req EXCEPT ![c].pc = "getCommit", ![c].latestCommitSha = refs[r.branch]]
             /\ log' = [log EXCEPT ![c] = Append(@, Call("getRef", r.branch, "ok", refs[r.branch]))]
          \/ Fail(c, "getRef", r.branch, "error")
  /\ UNCHANGED <<provider, rest>>

\* variant: an empty file list returns early, without a commit
getCommitSkipEmpty(c) ==
  LET r == req[c] IN
  /\ r.op = "commit" /\ r.pc = "getCommit"
  /\ \/ /\ req' = [req EXCEPT ![c].pc = IF r.files = <<>> THEN "done" ELSE "blobs",
                              ![c].baseTreeSha = CommitOf(r.latestCommitSha).tree,
                              ![c].blobSt = [i \in 1..Len(r.files) |-> "inflight"],
                              ![c].blobRes = [i \in 1..Len(r.files) |->
                                                 TreeEntry(r.files[i].path, None)]]
        /\ log' = [log EXCEPT ![c] = Append(@, Call("getCommit", r.latestCommitSha, "ok",
                                                    CommitOf(r.latestCommitSha).tree))]
     \/ Fail(c, "getCommit", r.latestCommitSha, "error")
  /\ UNCHANGED <<provider, rest>>

\* step 1b: octokit.git.getCommit; then files.map(...) issues every createBlob
commitMultipleFiles_getCommit(c) ==
  LET r == req[c] IN
  /\ r.op = "commit" /\ r.pc = "getCommit"
  /\ \/ /\ req' = [req EXCEPT ![c].pc = "blobs",
                              ![c].baseTreeSha = CommitOf(r.latestCommitSha).tree,
                              ![c].blobSt = [i \in 1..Len(r.files) |-> "inflight"],
                              ![c].blobRes = [i \in 1..Len(r.files) |->
                                                 TreeEntry(r.files[i].path, None)]]
        /\ log' = [log EXCEPT ![c] = Append(@, Call("getCommit", r.latestCommitSha, "ok", CommitOf(r.latestCommitSha).tree))]
     \/ Fail(c, "getCommit", r.latestCommitSha, "error")
  /\ UNCHANGED <<provider, rest>>

\* variant: a rejected createBlob is caught and the file goes on without a sha
createBlobSwallow(c, i) ==
  LET r == req[c]
      arg == [i |-> i, content |-> BlobContent(r.files[i]), encoding |-> BlobEncoding(r.files[i])]
      sha == BlobSha(Decode(arg.content, arg.encoding))
  IN
  /\ r.op = "commit" /\ r.pc \in {"blobs", "failed"}
  /\ i \in 1..Len(r.blobSt) /\ r.blobSt[i] = "inflight"
  /\ \/ /\ blobs' = blobs \cup {sha}
        /\ req' = [req EXCEPT ![c].blobSt[i] = "done",
                              ![c].blobRes[i] = TreeEntry(r.files[i].path, sha)]
        /\ log' = [log EXCEPT ![c] = Append(@, Call("createBlob", arg, "ok", sha))]
     \/ /\ blobs' = blobs
        /\ req' = [req EXCEPT ![c].blobSt[i] = "done"]
        /\ log' = [log EXCEPT ![c] = Append(@, Call("createBlob", arg, "error", None))]
  /\ UNCHANGED <<refs, commits, trees, enforceFF, rest>>

\* variant: the tree items are collected in the order the blobs come back
createBlobByCompletion(c, i) ==
  LET r == req[c]
      arg == [i |-> i, content |-> BlobContent(r.files[i]), encoding |-> BlobEncoding(r.files[i])]
      sha == BlobSha(Decode(arg.content, arg.encoding))
      k == 1 + Cardinality({j \in 1..Len(r.blobSt) : r.blobSt[j] # "inflight"})
  IN
  /\ r.op = "commit" /\ r.pc \in {"blobs", "failed"}
  /\ i \in 1..Len(r.blobSt) /\ r.blobSt[i] = "inflight"
  /\ \/ /\ blobs' = blobs \cup {sha}
        /\ req' = [req EXCEPT ![c].blobSt[i] = "done",
                              ![c].blobRes[k] = TreeEntry(r.files[k].path, sha)]
        /\ log' = [log EXCEPT ![c] = Append(@, Call("createBlob", arg, "ok", sha))]
     \/ /\ blobs' = blobs
        /\ req' = [req EXCEPT ![c].blobSt[i] = "failed", ![c].pc = "failed",
                              ![c].result = IF r.pc = "failed" THEN r.result ELSE "error"]
        /\ log' = [log EXCEPT ![c] = Append(@, Call("createBlob", arg, "error", None))]
  /\ UNCHANGED <<refs, commits, trees, enforceFF, rest>>

\* step 2: one createBlob completes (in any order); a rejection rejects
\* Promise.all while the other issued calls still reach the provider
commitMultipleFiles_createBlob(c, i) ==
  LET r == req[c]
      arg == [i |-> i, content |-> BlobContent(r.files[i]), encoding |-> BlobEncoding(r.files[i])]
      sha == BlobSha(Decode(arg.content, arg.encoding))
  IN
  /\ r.op = "commit" /\ r.pc \in {"blobs", "failed"}
  /\ i \in 1..Len(r.blobSt) /\ r.blobSt[i] = "inflight"
  /\ \/ /\ blobs' = blobs \cup {sha}
        /\ req' = [req EXCEPT ![c].blobSt[i] = "done",
                              ![c].blobRes[i] = TreeEntry(r.files[i].path, sha)]
        /\ log' = [log EXCEPT ![c] = Append(@, Call("createBlob", arg, "ok", sha))]
     \/ /\ blobs' = blobs
        /\ req' = [req EXCEPT ![c].blobSt[i] = "failed", ![c].pc = "failed",
                              ![c].result = IF r.pc = "failed" THEN r.result ELSE "error"]
        /\ log' = [log EXCEPT ![c] = Append(@, Call("createBlob", arg, "error", None))]
  /\ UNCHANGED <<refs, commits, trees, enforceFF, rest>>

\* variant: the first resolved blob promise lets the operation go on
BlobsSettledAny(r) == r.blobSt = <<>> \/ \E i \in 1..Len(r.blobSt) : r.blobSt[i] = "done"

\* await Promise.all(blobPromises) resolves once every blob promise resolved
BlobsSettled(r) == \A i \in 1..Len(r.blobSt) : r.blobSt[i] = "done"

\* variant: only the first blob makes it into the tree
treeItemsFirstOnly(r) == SubSeq(r.blobRes, 1, IF Len(r.blobRes) > 0 THEN 1 ELSE 0)

\* const treeItems = await Promise.all(blobPromises): the results in input order
treeItems(r) == r.blobRes

\* variant: the tree is built without the base tree
createTreeArgNoBase(r) == [base_tree |-> None, tree |-> treeItems(r)]

\* the parameters of createTree
createTreeArg(r) == [base_tree |-> r.baseTreeSha, tree |-> treeItems(r)]

\* the entries a new tree starts from: those of base_tree, none without one
BaseEntries(base_tree) == IF base_tree = None THEN [p \in Paths |-> None] ELSE TreeOf(base_tree)

\* step 3: octokit.git.createTree
commitMultipleFiles_createTree(c) ==
  LET r == req[c]
      arg == createTreeArg(r)
      t == TreeSha(MergeTree(BaseEntries(arg.base_tree), arg.tree))
  IN
  /\ r.op = "commit" /\ r.pc = "blobs" /\ BlobsSettled(r)
  /\ \/ /\ arg.base_tree = None \/ arg.base_tree \in trees
        /\ \A k \in 1..Len(arg.tree) : arg.tree[k].sha \in blobs
        /\ trees' = trees \cup {t}
        /\ req' = [req EXCEPT ![c].pc = "createCommit", ![c].newTree = t]
        /\ log' = [log EXCEPT ![c] = Append(@, Call("createTree", arg, "ok", t))]
     \/ /\ trees' = trees
        /\ Fail(c, "createTree", arg, "error")
  /\ UNCHANGED <<refs, commits, blobs, enforceFF, rest>>

\* variant: the commit is created without a parent
commitParentsNone(r) == <<>>

\* the parents parameter of createCommit
commitParents(r) == <<r.latestCommitSha>>

\* step 4: octokit.git.createCommit
commitMultipleFiles_createCommit(c) ==
  LET r == req[c]
      arg == [tree |-> r.newTree, parents |-> commitParents(r)]
  IN
  /\ r.op = "commit" /\ r.pc = "createCommit"
  /\ \/ /\ Len(commits) < MaxCommits
        /\ arg.tree \in trees
        /\ commits' = Append(commits, [tree |-> arg.tree, parents |-> arg.parents,
                                       message |-> "update"])
        /\ req' = [req EXCEPT ![c].pc = "updateRef", ![c].newCommit = CommitSha(Len(commits) + 1)]
        /\ log' = [log EXCEPT ![c] = Append(@, Call("createCommit", arg, "ok", CommitSha(Len(commits) + 1)))]
     \/ /\ commits' = commits
        /\ Fail(c, "createCommit", arg, "error")
  /\ UNCHANGED <<refs, blobs, trees, enforceFF, rest>>

\* the parameters of updateRef: the new sha, no force, no expected head
updateRefArg(r) == [ref |-> r.branch, sha |-> r.newCommit, force |-> FALSE]

\* variant: the engine re-reads the ref and refuses to move a head that moved
ExpectedHeadChecked(r) == refs[r.branch] = r.latestCommitSha

\* the commit engine checks nothing itself before it moves the ref
ExpectedHeadOk(r) == TRUE

\* step 5: octokit.git.updateRef
commitMultipleFiles_updateRef(c) ==
  LET r == req[c]
      arg == updateRefArg(r)
  IN
  /\ r.op = "commit" /\ r.pc = "updateRef"
  /\ IF ~ExpectedHeadOk(r)
     THEN refs' = refs /\ Fail(c, "updateRef", arg, "conflict")
     ELSE IF refs[arg.ref] = None
     THEN refs' = refs /\ Fail(c, "updateRef", arg, "notfound")
     ELSE IF ~RefUpdateAccepted(refs[arg.ref], arg.sha, arg.force)
     THEN refs' = refs /\ Fail(c, "updateRef", arg, "conflict")
     ELSE \/ /\ refs' = [refs EXCEPT ![arg.ref] = arg.sha]
             /\ req' = [req EXCEPT ![c].pc = "done", ![c].result = r.newCommit]
             /\ log' = [log EXCEPT ![c] = Append(@, Call("updateRef", arg, "ok", arg.sha))]
          \/ refs' = refs /\ Fail(c, "updateRef", arg, "error")
  /\ UNCHANGED <<commits, blobs, trees, enforceFF, rest>>

\* ----------------------------------------------------------------- syncFile
syncFile(c, b, p, content) ==
  /\ req[c].pc = "idle"
  /\ req' = [req EXCEPT ![c] = [IdleReq EXCEPT !.op = "sync", !.pc = "getContent", !.branch = b,
                                               !.files = <<[path |-> p, content |-> content]>>]]
  /\ UNCHANGED <<provider, rest, log>>

\* JSON.stringify(characterData, null, 2): the document text of the character
jsonContent(characterData) == Str(characterData)

\* POST /sync: the editor's character has a document and an image; the body
\* of the request carries characterData only and the handler calls syncFile
\* for "character.json"
PostSync(c, b, art) ==
  /\ req[c].pc = "idle"
  /\ req' = [req EXCEPT ![c] = [IdleReq EXCEPT !.op = "sync", !.pc = "getContent", !.branch = b,
                 !.endpoint = "/sync", !.art = art,
                 !.files = <<[path |-> "character.json", content |-> jsonContent(art.json)]>>]]
  /\ UNCHANGED <<provider, rest, log>>

\* variant: the catch block swallows every error of the read
syncFile_getContentSwallow(c) ==
  LET r == req[c]
      arg == [path |-> r.files[1].path, ref |-> r.branch]
  IN
  /\ r.op = "sync" /\ r.pc = "getContent"
  /\ \/ /\ FileAt(arg.ref, arg.path) # None
        /\ req' = [req EXCEPT ![c].pc = "putContent", ![c].fileSha = FileAt(arg.ref, arg.path)]
        /\ log' = [log EXCEPT ![c] = Append(@, Call("getContent", arg, "ok", FileAt(arg.ref, arg.path)))]
     \/ /\ FileAt(arg.ref, arg.path) = None
        /\ req' = [req EXCEPT ![c].pc = "putContent"]
        /\ log' = [log EXCEPT ![c] = Append(@, Call("getContent", arg, "notfound", None))]
     \/ /\ req' = [req EXCEPT ![c].pc = "putContent"]
        /\ log' = [log EXCEPT ![c] = Append(@, Call("getContent", arg, "error", None))]
  /\ UNCHANGED <<provider, rest>>

\* octokit.repos.getContent; a 404 leaves fileSha undefined
syncFile_getContent(c) ==
  LET r == req[c]
      arg == [path |-> r.files[1].path, ref |-> r.branch]
  IN
  /\ r.op = "sync" /\ r.pc = "getContent"
  /\ \/ /\ FileAt(arg.ref, arg.path) # None
        /\ req' = [req EXCEPT ![c].pc = "putContent", ![c].fileSha = FileAt(arg.ref, arg.path)]
        /\ log' = [log EXCEPT ![c] = Append(@, Call("getContent", arg, "ok", FileAt(arg.ref, arg.path)))]
     \/ /\ FileAt(arg.ref, arg.path) = None
        /\ req' = [req EXCEPT ![c].pc = "putContent"]
        /\ log' = [log EXCEPT ![c] = Append(@, Call("getContent", arg, "notfound", None))]
     \/ Fail(c, "getContent", arg, "error")
  /\ UNCHANGED <<provider, rest>>

\* history: request d has read the file that request w now writes and has not
\* written yet
ReadBeforeThisWrite(d, w) ==
  d.op = "sync" /\ d.pc = "putContent" /\ d.branch = w.branch /\ d.files[1].path = w.files[1].path

\* variant: the write carries the sha of the content it sends
putShaOfContent(r) == BlobSha(BytesOf(r.files[1].content))

\* variant: the write never carries a sha
putShaNone(r) == None

\* variant: the write carries whatever sha the file has when it is written
putShaFresh(r) == FileAt(r.branch, r.files[1].path)

\* the sha parameter of createOrUpdateFileContents
putSha(r) == r.fileSha

\* octokit.repos.createOrUpdateFileContents: the provider checks the sha
\* against the file at the head of the branch and, if it passes, creates the
\* blob, the tree and the commit and moves the branch, all in one step
syncFile_putContent(c) ==
  LET r == req[c]
      arg == [path |-> r.files[1].path, content |-> SyncContent(r.files[1].content),
              branch |-> r.branch, sha |-> putSha(r)]
      cur == FileAt(arg.branch, arg.path)
      sha == BlobSha(Decode(arg.content, "base64"))
      t == TreeSha([HeadTree(arg.branch) EXCEPT ![arg.path] = sha])
  IN
  /\ r.op = "sync" /\ r.pc = "putContent"
  /\ IF refs[arg.branch] = None
     THEN UNCHANGED <<provider, rest>> /\ Fail(c, "createOrUpdateFileContents", arg, "notfound")
     ELSE IF ~ShaCheckPasses(cur, arg.sha)
     THEN UNCHANGED <<provider, rest>> /\ Fail(c, "createOrUpdateFileContents", arg, "conflict")
     ELSE \/ /\ Len(commits) < MaxCommits
             /\ blobs' = blobs \cup {sha}
             /\ trees' = trees \cup {t}
             /\ commits' = Append(commits, [tree |-> t, parents |-> <<refs[arg.branch]>>,
                                            message |-> "update"])
             /\ refs' = [refs EXCEPT ![arg.branch] = CommitSha(Len(commits) + 1)]
             /\ UNCHANGED <<enforceFF, rest>>
             /\ req' = [d \in Reqs |->
                         IF d = c
                         THEN [r EXCEPT !.pc = "done", !.newCommit = CommitSha(Len(commits) + 1),
                                        !.result = CommitSha(Len(commits) + 1)]
                         ELSE [req[d] EXCEPT !.raced = @ \/ ReadBeforeThisWrite(req[d], r)]]
             /\ log' = [log EXCEPT ![c] = Append(@, Call("createOrUpdateFileContents", arg, "ok", CommitSha(Len(commits) + 1)))]
          \/ UNCHANGED <<provider, rest>> /\ Fail(c, "createOrUpdateFileContents", arg, "error")

Arts == [json : Data, png : Data]

CommitNext ==
  \/ \E c \in Reqs, b \in Branches, fs \in FileLists : commitMultipleFiles(c, b, fs)
  \/ \E c \in Reqs : commitMultipleFiles_getRef(c)
  \/ \E c \in Reqs : commitMultipleFiles_getCommit(c)
  \/ \E c \in Reqs, i \in 1..MaxFiles : commitMultipleFiles_createBlob(c, i)
  \/ \E c \in Reqs : commitMultipleFiles_createTree(c)
  \/ \E c \in Reqs : commitMultipleFiles_createCommit(c)
  \/ \E c \in Reqs : commitMultipleFiles_updateRef(c)

SyncNext ==
  \/ \E c \in Reqs, b \in Branches, p \in TrackedPaths :
       \E k \in ContentsFor(p) : syncFile(c, b, p, k)
  \/ \E c \in Reqs, b \in Branches, art \in Arts : PostSync(c, b, art)
  \/ \E c \in Reqs : syncFile_getContent(c)
  \/ \E c \in Reqs : syncFile_putContent(c)

Next == CommitNext \/ SyncNext

Spec == Init /\ [][Next]_vars

\* the commit engine alone, and the synchronizer alone
SpecCommit == Init /\ [][CommitNext]_vars
SpecSync == Init /\ [][SyncNext]_vars

\* ------------------------------------------------- syncFile, twice in a row
\* a caller awaits syncFile and, once it has returned the commit, calls it
\* again on the same path and branch; after names the call it follows
syncFileAgain(d, c, content) ==
  /\ c # d
  /\ req[d].pc = "idle"
  /\ req[c].op = "sync" /\ req[c].pc = "done"
  /\ req' = [req EXCEPT ![d] = [IdleReq EXCEPT !.op = "sync", !.pc = "getContent",
                                               !.branch = req[c].branch, !.after = c,
                                               !.files = <<[path |-> req[c].files[1].path,
                                                            content |-> content]>>]]
  /\ UNCHANGED <<provider, rest, log>>

SyncTwiceNext ==
  \/ SyncNext
  \/ \E c \in Reqs, d \in Reqs, p \in TrackedPaths :
       \E k \in ContentsFor(p) : req[c].files # <<>> /\ req[c].files[1].path = p /\ syncFileAgain(d, c, k)

SpecSyncTwice == Init /\ [][SyncTwiceNext]_vars

\* ---------------------------------------------------------- revertToVersion
NewBytes == <<"raw", 1>>                  \* bytes of the files the second commit wrote

\* the tree of the first commit: the README alone, with the document, or with
\* the document and the image
RevertInitTrees ==
  { [p \in Paths |-> IF p = "README.md" THEN BlobSha(OldBytes) ELSE None],
    [p \in Paths |-> IF p = "card.png" THEN None ELSE BlobSha(OldBytes)],
    [p \in Paths |-> BlobSha(OldBytes)] }

\* the paths the second commit wrote
SecondCommitPaths ==
  { {"card.png"}, {"character.json", "card.png"}, Paths }

\* a repository with history: "dev" was created from the first commit of
\* "main" and a second commit on "main" wrote some files
InitRevert ==
  /\ \E t \in RevertInitTrees, S \in SecondCommitPaths :
       LET t2 == [p \in Paths |-> IF p \in S THEN BlobSha(NewBytes) ELSE t[p]] IN
       /\ trees = {TreeSha(t), TreeSha(t2)}
       /\ commits = <<[tree |-> TreeSha(t), parents |-> <<>>, message |-> "Initial commit"],
                      [tree |-> TreeSha(t2), parents |-> <<CommitSha(1)>>, message |-> "update"]>>
  /\ blobs = {BlobSha(OldBytes), BlobSha(NewBytes)}
  /\ refs = [b \in Branches |-> IF b = "main" THEN CommitSha(2) ELSE CommitSha(1)]
  /\ enforceFF \in BOOLEAN
  /\ req = [c \in Reqs |-> IdleReq]
  /\ log = [c \in Reqs |-> <<>>]
  /\ RestInit

\* the blob at a path of a commit; None when the path is not in its tree
FileAtCommit(sha, p) == TreeOf(CommitOf(sha).tree)[p]

\* getFileContent(token, repoUrl, hash, fileName): the base64 content and the
\* sha of the file, null after a 404
getFileContent(hash, fileName) ==
  IF FileAtCommit(hash, fileName) = None
  THEN None
  ELSE [content |-> Base64(FileAtCommit(hash, fileName)[2]), sha |-> FileAtCommit(hash, fileName)]

\* Buffer.from(content, "base64").toString("utf-8"): text bytes come back as
\* the same text, anything else as replacement characters
ToStringUtf8(bytes) == IF bytes[1] = "raw" THEN bytes ELSE <<"replaced", bytes>>

revertToVersion(c, b, targetCommitSha) ==
  /\ req[c].pc = "idle"
  /\ targetCommitSha[2] \in 1..Len(commits)
  /\ req' = [req EXCEPT ![c] = [IdleReq EXCEPT !.op = "revert", !.pc = "getJson", !.branch = b,
                                               !.targetCommitSha = targetCommitSha]]
  /\ UNCHANGED <<provider, rest, log>>

\* a caller awaits a revert and then reverts the same branch to the commit
\* that was its head before; after names the revert it follows
revertBack(d, c) ==
  /\ c # d
  /\ req[d].pc = "idle"
  /\ req[c].op = "revert" /\ req[c].pc = "done"
  /\ req' = [req EXCEPT ![d] = [IdleReq EXCEPT !.op = "revert", !.pc = "getJson",
                                               !.branch = req[c].branch, !.after = c,
                                               !.targetCommitSha = req[c].latestCommitSha]]
  /\ UNCHANGED <<provider, rest, log>>

\* step 1a: getFileContent of character.json at the target; null throws
revertToVersion_getJson(c) ==
  LET r == req[c]
      arg == [path |-> "character.json", ref |-> r.targetCommitSha]
      data == getFileContent(arg.ref, arg.path)
  IN
  /\ r.op = "revert" /\ r.pc = "getJson"
  /\ \/ /\ FileAtCommit(arg.ref, arg.path) # None
        /\ req' = [req EXCEPT ![c].pc = "getPng",
                              ![c].characterJsonContent = ToStringUtf8(Decode(data.content, "base64"))]
        /\ log' = [log EXCEPT ![c] = Append(@, Call("getContent", arg, "ok", data.sha))]
     \/ /\ FileAtCommit(arg.ref, arg.path) = None
        /\ Fail(c, "getContent", arg, "notfound")
     \/ Fail(c, "getContent", arg, "error")
  /\ UNCHANGED <<provider, rest>>

\* variant: a target without card.png fails the revert
getPngMissingThrows(c) ==
  LET r == req[c]
      arg == [path |-> "card.png", ref |-> r.targetCommitSha]
      data == getFileContent(arg.ref, arg.path)
  IN
  /\ r.op = "revert" /\ r.pc = "getPng"
  /\ \/ /\ FileAtCommit(arg.ref, arg.path) # None
        /\ req' = [req EXCEPT ![c].pc = "getRef", ![c].cardPngContent = data.content]
        /\ log' = [log EXCEPT ![c] = Append(@, Call("getContent", arg, "ok", data.sha))]
     \/ /\ FileAtCommit(arg.ref, arg.path) = None
        /\ Fail(c, "getContent", arg, "notfound")
     \/ Fail(c, "getContent", arg, "error")
  /\ UNCHANGED <<provider, rest>>

\* step 1b: getFileContent of card.png at the target; null is kept as null
revertToVersion_getPng(c) ==
  LET r == req[c]
      arg == [path |-> "card.png", ref |-> r.targetCommitSha]
      data == getFileContent(arg.ref, arg.path)
  IN
  /\ r.op = "revert" /\ r.pc = "getPng"
  /\ \/ /\ FileAtCommit(arg.ref, arg.path) # None
        /\ req' = [req EXCEPT ![c].pc = "getRef", ![c].cardPngContent = data.content]
        /\ log' = [log EXCEPT ![c] = Append(@, Call("getContent", arg, "ok", data.sha))]
     \/ /\ FileAtCommit(arg.ref, arg.path) = None
        /\ req' = [req EXCEPT ![c].pc = "getRef"]
        /\ log' = [log EXCEPT ![c] = Append(@, Call("getContent", arg, "notfound", None))]
     \/ Fail(c, "getContent", arg, "error")
  /\ UNCHANGED <<provider, rest>>

\* step 2a: octokit.git.getRef
revertToVersion_getRef(c) ==
  LET r == req[c] IN
  /\ r.op = "revert" /\ r.pc = "getRef"
  /\ IF refs[r.branch] = None
     THEN Fail(c, "getRef", r.branch, "notfound")
     ELSE \/ /\ req' = [req EXCEPT ![c].pc = "getCommit", ![c].latestCommitSha = refs[r.branch]]
             /\ log' = [log EXCEPT ![c] = Append(@, Call("getRef", r.branch, "ok", refs[r.branch]))]
          \/ Fail(c, "getRef", r.branch, "error")
  /\ UNCHANGED <<provider, rest>>

\* step 2b: octokit.git.getCommit
revertToVersion_getCommit(c) ==
  LET r == req[c] IN
  /\ r.op = "revert" /\ r.pc = "getCommit"
  /\ \/ /\ req' = [req EXCEPT ![c].pc = "blobJson",
                              ![c].baseTreeSha = CommitOf(r.latestCommitSha).tree]
        /\ log' = [log EXCEPT ![c] = Append(@, Call("getCommit", r.latestCommitSha, "ok",
                                                    CommitOf(r.latestCommitSha).tree))]
     \/ Fail(c, "getCommit", r.latestCommitSha, "error")
  /\ UNCHANGED <<provider, rest>>

\* if (cardPngContent): the image gets a blob only when the target had one
HasPng(r) == r.cardPngContent # None

\* step 3a: createBlob of the document, as utf-8 text
revertToVersion_createJsonBlob(c) ==
  LET r == req[c]
      arg == [path |-> "character.json", content |-> r.characterJsonContent, encoding |-> "utf-8"]
      sha == BlobSha(Decode(arg.content, arg.encoding))
  IN
  /\ r.op = "revert" /\ r.pc = "blobJson"
  /\ \/ /\ blobs' = blobs \cup {sha}
        /\ req' = [req EXCEPT ![c].pc = IF HasPng(r) THEN "blobPng" ELSE "createTree",
                              ![c].blobRes = Append(@, TreeEntry("character.json", sha))]
        /\ log' = [log EXCEPT ![c] = Append(@, Call("createBlob", arg, "ok", sha))]
     \/ /\ blobs' = blobs
        /\ Fail(c, "createBlob", arg, "error")
  /\ UNCHANGED <<refs, commits, trees, enforceFF, rest>>

\* the encoding of the createBlob call of the image
pngBlobEncoding == "base64"

\* step 3b: createBlob of the image, as base64
revertToVersion_createPngBlob(c) ==
  LET r == req[c]
      arg == [path |-> "card.png", content |-> r.cardPngContent, encoding |-> pngBlobEncoding]
      sha == BlobSha(Decode(arg.content, arg.encoding))
  IN
  /\ r.op = "revert" /\ r.pc = "blobPng"
  /\ \/ /\ blobs' = blobs \cup {sha}
        /\ req' = [req EXCEPT ![c].pc = "createTree",
                              ![c].blobRes = Append(@, TreeEntry("card.png", sha))]
        /\ log' = [log EXCEPT ![c] = Append(@, Call("createBlob", arg, "ok", sha))]
     \/ /\ blobs' = blobs
        /\ Fail(c, "createBlob", arg, "error")
  /\ UNCHANGED <<refs, commits, trees, enforceFF, rest>>

\* variant: the tree is built without the head's tree
revertTreeArgNoBase(r) == [base_tree |-> None, tree |-> r.blobRes]

\* variant: the tree takes the document alone
revertTreeArgJsonOnly(r) == [base_tree |-> r.baseTreeSha, tree |-> SubSeq(r.blobRes, 1, 1)]

\* the parameters of createTree: the head's tree and the blobs array
revertTreeArg(r) == [base_tree |-> r.baseTreeSha, tree |-> r.blobRes]

\* step 4: octokit.git.createTree
revertToVersion_createTree(c) ==
  LET r == req[c]
      arg == revertTreeArg(r)
      t == TreeSha(MergeTree(BaseEntries(arg.base_tree), arg.tree))
  IN
  /\ r.op = "revert" /\ r.pc = "createTree"
  /\ \/ /\ arg.base_tree = None \/ arg.base_tree \in trees
        /\ \A k \in 1..Len(arg.tree) : arg.tree[k].sha \in blobs
        /\ trees' = trees \cup {t}
        /\ req' = [req EXCEPT ![c].pc = "createCommit", ![c].newTree = t]
        /\ log' = [log EXCEPT ![c] = Append(@, Call("createTree", arg, "ok", t))]
     \/ /\ trees' = trees
        /\ Fail(c, "createTree", arg, "error")
  /\ UNCHANGED <<refs, commits, blobs, enforceFF, rest>>

\* targetCommitSha.substring(0, 7)
ShortSha(sha) == <<"sha7", sha[2]>>

\* variant: the label names the head that is replaced
revertMessageOfHead(r) == <<"hui gun dao ban ben ", ShortSha(r.latestCommitSha)>>

\* the commit message of a revert: the fixed Chinese label of the source
\* ("hui gun dao ban ben", roll back to version) and the short sha
revertMessage(r) == <<"hui gun dao ban ben ", ShortSha(r.targetCommitSha)>>

\* step 5: octokit.git.createCommit with parents [latestCommitSha]
revertToVersion_createCommit(c) ==
  LET r == req[c]
      arg == [message |-> revertMessage(r), tree |-> r.newTree, parents |-> <<r.latestCommitSha>>]
  IN
  /\ r.op = "revert" /\ r.pc = "createCommit"
  /\ \/ /\ Len(commits) < MaxCommits
        /\ arg.tree \in trees
        /\ commits' = Append(commits, [tree |-> arg.tree, parents |-> arg.parents,
                                       message |-> arg.message])
        /\ req' = [req EXCEPT ![c].pc = "updateRef", ![c].newCommit = CommitSha(Len(commits) + 1)]
        /\ log' = [log EXCEPT ![c] = Append(@, Call("createCommit", arg, "ok", CommitSha(Len(commits) + 1)))]
     \/ /\ commits' = commits
        /\ Fail(c, "createCommit", arg, "error")
  /\ UNCHANGED <<refs, blobs, trees, enforceFF, rest>>

\* variant: the ref is reset to the target commit itself
revertUpdateRefArgReset(r) == [ref |-> r.branch, sha |-> r.targetCommitSha, force |-> TRUE]

\* variant: the ref is moved with force
revertUpdateRefArgForce(r) == [ref |-> r.branch, sha |-> r.newCommit, force |-> TRUE]

\* the parameters of updateRef: the new sha, no force
revertUpdateRefArg(r) == [ref |-> r.branch, sha |-> r.newCommit, force |-> FALSE]

\* step 6 and 7: octokit.git.updateRef, then the contents are returned
revertToVersion_updateRef(c) ==
  LET r == req[c]
      arg == revertUpdateRefArg(r)
  IN
  /\ r.op = "revert" /\ r.pc = "updateRef"
  /\ IF refs[arg.ref] = None
     THEN refs' = refs /\ Fail(c, "updateRef", arg, "notfound")
     ELSE IF ~RefUpdateAccepted(refs[arg.ref], arg.sha, arg.force)
     THEN refs' = refs /\ Fail(c, "updateRef", arg, "conflict")
     ELSE \/ /\ refs' = [refs EXCEPT ![arg.ref] = arg.sha]
             /\ req' = [req EXCEPT ![c].pc = "done",
                                   ![c].result = [characterJsonContent |-> r.characterJsonContent,
                                                  cardPngContent |-> r.cardPngContent]]
             /\ log' = [log EXCEPT ![c] = Append(@, Call("updateRef", arg, "ok", arg.sha))]
          \/ refs' = refs /\ Fail(c, "updateRef", arg, "error")
  /\ UNCHANGED <<commits, blobs, trees, enforceFF, rest>>

RevertNext ==
  \/ \E c \in Reqs, b \in Branches, n \in 1..MaxCommits : revertToVersion(c, b, CommitSha(n))
  \/ \E c \in Reqs, d \in Reqs : revertBack(d, c)
  \/ \E c \in Reqs : revertToVersion_getJson(c)
  \/ \E c \in Reqs : revertToVersion_getPng(c)
  \/ \E c \in Reqs : revertToVersion_getRef(c)
  \/ \E c \in Reqs : revertToVersion_getCommit(c)
  \/ \E c \in Reqs : revertToVersion_createJsonBlob(c)
  \/ \E c \in Reqs : revertToVersion_createPngBlob(c)
  \/ \E c \in Reqs : revertToVersion_createTree(c)
  \/ \E c \in Reqs : revertToVersion_createCommit(c)
  \/ \E c \in Reqs : revertToVersion_updateRef(c)

SpecRevert == InitRevert /\ [][RevertNext]_vars

\* -------------------------------------------------------------- createBranch
DefaultBranch == "main"              \* repoData.default_branch

\* the repository a URL names: the one of the model, or none the token can see
RepoUrls == {"repo", "missing"}
RepoFound(r) == r.repoUrl = "repo"

\* an optional argument is <<>> when it is not given and <<value>> otherwise
EmptyText == Str(-1)                 \* the string ""
DefaultReadme == Str(-2)             \* the fixed text createBranch falls back to
ReadmeContents == {<<>>, <<EmptyText>>} \cup {<<Str(d)>> : d \in Data}
BaseBranchNames == {<<>>} \cup {<<b>> : b \in Branches}

\* three repositories: an empty one, one with a first commit on "main", and
\* one with two commits on "main"
InitBranch ==
  /\ \/ /\ commits = <<>> /\ trees = {} /\ blobs = {}
        /\ refs = [b \in Branches |-> None]
     \/ /\ \E t \in InitTrees :
             /\ trees = {TreeSha(t)}
             /\ commits = <<[tree |-> TreeSha(t), parents |-> <<>>, message |-> "Initial commit"]>>
        /\ blobs = {BlobSha(OldBytes)}
        /\ refs = [b \in Branches |-> IF b = "main" THEN CommitSha(1) ELSE None]
     \/ /\ LET t == [p \in Paths |-> BlobSha(OldBytes)]
               t2 == [t EXCEPT !["character.json"] = BlobSha(NewBytes)]
           IN /\ trees = {TreeSha(t), TreeSha(t2)}
              /\ commits = <<[tree |-> TreeSha(t), parents |-> <<>>, message |-> "Initial commit"],
                             [tree |-> TreeSha(t2), parents |-> <<CommitSha(1)>>, message |-> "update"]>>
        /\ blobs = {BlobSha(OldBytes), BlobSha(NewBytes)}
        /\ refs = [b \in Branches |-> IF b = "main" THEN CommitSha(2) ELSE None]
  /\ enforceFF = TRUE
  /\ req = [c \in Reqs |-> IdleReq]
  /\ log = [c \in Reqs |-> <<>>]
  /\ RestInit

\* if (baseBranchName)
HasBase(r) == r.baseBranchName # <<>>

createBranch(c, repoUrl, newBranchName, baseBranchName, readmeContent) ==
  /\ req[c].pc = "idle"
  /\ req' = [req EXCEPT ![c] = [IdleReq EXCEPT !.op = "branch", !.repoUrl = repoUrl,
                 !.pc = IF baseBranchName # <<>> THEN "getBranch" ELSE "reposGet",
                 !.branch = newBranchName, !.baseBranchName = baseBranchName,
                 !.readmeContent = readmeContent]]
  /\ UNCHANGED <<provider, rest, log>>

\* catch (error): error.status === 404 goes on to the seed write, anything
\* else is thrown on
Caught(c, api, arg, res) ==
  /\ req' = [req EXCEPT ![c].pc = IF res = "notfound" THEN "seed" ELSE "failed",
                        ![c].result = IF res = "notfound" THEN @ ELSE res]
  /\ log' = [log EXCEPT ![c] = Append(@, Call(api, arg, res, None))]

\* a rejected call: thrown to the caller with a base branch, caught by the
\* try block without one
Throw(c, api, arg, res) ==
  IF HasBase(req[c]) THEN Fail(c, api, arg, res) ELSE Caught(c, api, arg, res)

\* octokit.repos.get: the default branch of the repository
createBranch_reposGet(c) ==
  LET r == req[c] IN
  /\ r.op = "branch" /\ r.pc = "reposGet"
  /\ IF ~RepoFound(r)
     THEN Caught(c, "repos.get", r.repoUrl, "notfound")
     ELSE \/ /\ req' = [req EXCEPT ![c].pc = "getBranch"]
             /\ log' = [log EXCEPT ![c] = Append(@, Call("repos.get", r.repoUrl, "ok", DefaultBranch))]
          \/ Caught(c, "repos.get", r.repoUrl, "error")
  /\ UNCHANGED <<provider, rest>>

\* variant: without a base the new branch is taken from itself
baseOfItself(r) == IF HasBase(r) THEN r.baseBranchName[1] ELSE r.branch

\* the branch whose head becomes the new branch: the base, else the default
baseOf(r) == IF HasBase(r) THEN r.baseBranchName[1] ELSE DefaultBranch

\* octokit.repos.getBranch: the head of the base (or default) branch; a 404
\* when the branch does not exist
createBranch_getBranch(c) ==
  LET r == req[c]
      arg == [branch |-> baseOf(r)]
  IN
  /\ r.op = "branch" /\ r.pc = "getBranch"
  /\ IF ~RepoFound(r) \/ refs[arg.branch] = None
     THEN Throw(c, "getBranch", arg, "notfound")
     ELSE \/ /\ req' = [req EXCEPT ![c].pc = "createRef", ![c].fromCommitSha = refs[arg.branch]]
             /\ log' = [log EXCEPT ![c] = Append(@, Call("getBranch", arg, "ok", refs[arg.branch]))]
          \/ Throw(c, "getBranch", arg, "error")
  /\ UNCHANGED <<provider, rest>>

\* variant: the new branch starts at the first commit of the repository
createRefShaRoot(r) == CommitSha(1)

\* the sha of createRef: fromCommitSha
createRefSha(r) == r.fromCommitSha

\* octokit.git.createRef: refused (422) when the ref exists
createBranch_createRef(c) ==
  LET r == req[c]
      arg == [ref |-> r.branch, sha |-> createRefSha(r)]
  IN
  /\ r.op = "branch" /\ r.pc = "createRef"
  /\ IF ~RepoFound(r)
     THEN refs' = refs /\ Throw(c, "createRef", arg, "notfound")
     ELSE IF refs[arg.ref] # None
     THEN refs' = refs /\ Throw(c, "createRef", arg, "exists")
     ELSE \/ /\ refs' = [refs EXCEPT ![arg.ref] = arg.sha]
             /\ req' = [req EXCEPT ![c].pc = "done", ![c].result = arg]
             /\ log' = [log EXCEPT ![c] = Append(@, Call("createRef", arg, "ok", arg.sha))]
          \/ refs' = refs /\ Throw(c, "createRef", arg, "error")
  /\ UNCHANGED <<commits, blobs, trees, enforceFF, rest>>

\* variant: the seed is always the fixed text
finalReadmeContentFixed(readmeContent) == DefaultReadme

\* readmeContent || "# Qiros...": undefined and "" fall back to the fixed text
finalReadmeContent(readmeContent) ==
  IF readmeContent # <<>> /\ readmeContent # <<EmptyText>> THEN readmeContent[1] ELSE DefaultReadme

\* octokit.repos.createOrUpdateFileContents of README.md on the new branch,
\* without a sha: in an empty repository it creates the first commit and the
\* branch; otherwise the branch must exist and the file must not
createBranch_seed(c) ==
  LET r == req[c]
      arg == [path |-> "README.md", message |-> "Initial commit",
              content |-> Base64(BytesOf(finalReadmeContent(r.readmeContent))),
              branch |-> r.branch]
      sha == BlobSha(Decode(arg.content, "base64"))
      base == IF commits = <<>> THEN [p \in Paths |-> None] ELSE HeadTree(arg.branch)
      t == TreeSha([base EXCEPT ![arg.path] = sha])
      n == CommitSha(Len(commits) + 1)
  IN
  /\ r.op = "branch" /\ r.pc = "seed"
  /\ IF ~RepoFound(r) \/ (commits # <<>> /\ refs[arg.branch] = None)
     THEN UNCHANGED <<provider, rest>> /\ Fail(c, "createOrUpdateFileContents", arg, "notfound")
     ELSE IF commits # <<>> /\ ~ShaCheckPasses(FileAt(arg.branch, arg.path), None)
     THEN UNCHANGED <<provider, rest>> /\ Fail(c, "createOrUpdateFileContents", arg, "conflict")
     ELSE \/ /\ Len(commits) < MaxCommits
             /\ blobs' = blobs \cup {sha}
             /\ trees' = trees \cup {t}
             /\ commits' = Append(commits,
                             [tree |-> t, message |-> arg.message,
                              parents |-> IF commits = <<>> THEN <<>> ELSE <<refs[arg.branch]>>])
             /\ refs' = [refs EXCEPT ![arg.branch] = n]
             /\ UNCHANGED <<enforceFF, rest>>
             /\ req' = [req EXCEPT ![c].pc = "done", ![c].newCommit = n,
                                   ![c].result = [success |-> TRUE, branch |-> r.branch, object |-> n]]
             /\ log' = [log EXCEPT ![c] = Append(@, Call("createOrUpdateFileContents", arg, "ok", n))]
          \/ UNCHANGED <<provider, rest>> /\ Fail(c, "createOrUpdateFileContents", arg, "error")

BranchNext ==
  \/ \E c \in Reqs, u \in RepoUrls, n \in Branches, b \in BaseBranchNames, k \in ReadmeContents :
       createBranch(c, u, n, b, k)
  \/ \E c \in Reqs : createBranch_reposGet(c)
  \/ \E c \in Reqs : createBranch_getBranch(c)
  \/ \E c \in Reqs : createBranch_createRef(c)
  \/ \E c \in Reqs : createBranch_seed(c)

SpecBranch == InitBranch /\ [][BranchNext]_vars

\* -------------------------------------------------------------- parseRepoUrl
\* A pathname is a sequence of tokens: the separator "/", the suffix ".git"
\* and the one-letter names "a" and "b"; a string is the concatenation of its
\* tokens.  href.ok tells whether new URL(repoUrl) accepts the text.
Tokens == {"/", ".git", "a", "b"}
TokenSeqs == UNION {[1..n -> Tokens] : n \in 0..MaxUrlLen}
Urls ==
  {[ok |-> FALSE, pathname |-> <<>>]} \cup {[ok |-> TRUE, pathname |-> <<"/">> \o s] : s \in TokenSeqs}

\* the same address with ".git" appended
WithDotGit(url) == IF url.ok THEN [url EXCEPT !.pathname = Append(@, ".git")] ELSE url

\* variant: only the leading slash is removed
StripLeadingSlash(pathname) ==
  IF pathname # <<>> /\ Head(pathname) = "/" THEN Tail(pathname) ELSE pathname

\* pathname.replace(/^\/|\.git$/g, ""): one leading "/" and one trailing
\* ".git" are removed
StripPath(pathname) ==
  LET a == IF pathname # <<>> /\ Head(pathname) = "/" THEN Tail(pathname) ELSE pathname
  IN IF a # <<>> /\ a[Len(a)] = ".git" THEN SubSeq(a, 1, Len(a) - 1) ELSE a

RECURSIVE Split(_)
\* pathname.split("/"): the parts between the separators, empty ones included
Split(s) ==
  IF \A i \in 1..Len(s) : s[i] # "/"
  THEN <<s>>
  ELSE LET i == CHOOSE j \in 1..Len(s) : s[j] = "/" /\ \A k \in 1..(j - 1) : s[k] # "/"
       IN <<SubSeq(s, 1, i - 1)>> \o Split(SubSeq(s, i + 1, Len(s)))

\* variant: an address with one part is taken as an owner without repository
parseRepoUrlLenient(url) ==
  IF ~url.ok
  THEN [threw |-> TRUE, owner |-> <<>>, repo |-> <<>>]
  ELSE LET parts == Split(StripPath(url.pathname)) IN
       IF Len(parts) < 2
       THEN [threw |-> FALSE, owner |-> parts[1], repo |-> <<>>]
       ELSE [threw |-> FALSE, owner |-> parts[1], repo |-> parts[2]]

\* parseRepoUrl(repoUrl): threw is TRUE when the function throws (new URL
\* rejects the text, or the pathname has fewer than two parts)
parseRepoUrl(url) ==
  IF ~url.ok
  THEN [threw |-> TRUE, owner |-> <<>>, repo |-> <<>>]
  ELSE LET parts == Split(StripPath(url.pathname)) IN
       IF Len(parts) < 2
       THEN [threw |-> TRUE, owner |-> <<>>, repo |-> <<>>]
       ELSE [threw |-> FALSE, owner |-> parts[1], repo |-> parts[2]]

\* one address is given to the first request and the same address with
\* ".git" appended to the second
InitParse ==
  /\ commits = <<>> /\ trees = {} /\ blobs = {}
  /\ refs = [b \in Branches |-> None]
  /\ enforceFF = TRUE
  /\ \E u \in Urls :
       req = [c \in Reqs |-> [IdleReq EXCEPT !.op = "parse", !.pc = "parse",
                                             !.href = IF c = "r1" THEN u ELSE WithDotGit(u)]]
  /\ log = [c \in Reqs |-> <<>>]
  /\ RestInit

\* a request parses its address
parse(c) ==
  /\ req[c].op = "parse" /\ req[c].pc = "parse"
  /\ req' = [req EXCEPT ![c].pc = IF parseRepoUrl(req[c].href).threw THEN "failed" ELSE "done",
                        ![c].result = parseRepoUrl(req[c].href)]
  /\ UNCHANGED <<provider, rest, log>>

ParseNext == \E c \in Reqs : parse(c)

SpecParse == InitParse /\ [][ParseNext]_vars

\* ------------------------------------------- operations that take a URL
\* Every exported operation builds its client and calls parseRepoUrl(repoUrl)
\* before its first remote call.  Two requests name the repository by the
\* same address; the repository holds one commit on "main".
InitUrlOps ==
  /\ LET t == [p \in Paths |-> BlobSha(OldBytes)] IN
       /\ trees = {TreeSha(t)}
       /\ commits = <<[tree |-> TreeSha(t), parents |-> <<>>, message |-> "Initial commit"]>>
  /\ blobs = {BlobSha(OldBytes)}
  /\ refs = [b \in Branches |-> IF b = "main" THEN CommitSha(1) ELSE None]
  /\ enforceFF = TRUE
  /\ \E u \in Urls :
       req = [c \in Reqs |-> [IdleReq EXCEPT !.op = "parse", !.pc = "parse", !.href = u]]
  /\ log = [c \in Reqs |-> <<>>]
  /\ RestInit

UrlOps == {"sync", "commit", "revert", "branch"}

\* the state an operation is in after its first two lines, when parseRepoUrl
\* returned
Entered(r, op) ==
  IF op = "sync"
  THEN [r EXCEPT !.op = "sync", !.pc = "getContent",
                 !.files = <<[path |-> "character.json", content |-> Str(1)]>>]
  ELSE IF op = "commit"
  THEN [r EXCEPT !.op = "commit", !.pc = "getRef",
                 !.files = <<[path |-> "card.png", content |-> Buf(1)]>>]
  ELSE IF op = "revert"
  THEN [r EXCEPT !.op = "revert", !.pc = "getJson", !.targetCommitSha = CommitSha(1)]
  ELSE [r EXCEPT !.op = "branch", !.pc = "reposGet", !.branch = "dev"]

\* an operation is called with the address: parseRepoUrl throws out of the
\* operation, or the operation goes on to its remote calls
callOperation(c, op) ==
  /\ req[c].op = "parse" /\ req[c].pc = "parse"
  /\ req' = [req EXCEPT ![c] =
               IF parseRepoUrl(req[c].href).threw
               THEN [@ EXCEPT !.pc = "failed", !.result = parseRepoUrl(req[c].href)]
               ELSE Entered(@, op)]
  /\ UNCHANGED <<provider, rest, log>>

UrlOpsNext ==
  \/ \E c \in Reqs, op \in UrlOps : callOperation(c, op)
  \/ \E c \in Reqs : syncFile_getContent(c)
  \/ \E c \in Reqs : syncFile_putContent(c)
  \/ \E c \in Reqs : commitMultipleFiles_getRef(c)
  \/ \E c \in Reqs : commitMultipleFiles_getCommit(c)
  \/ \E c \in Reqs, i \in 1..MaxFiles : commitMultipleFiles_createBlob(c, i)
  \/ \E c \in Reqs : commitMultipleFiles_createTree(c)
  \/ \E c \in Reqs : commitMultipleFiles_createCommit(c)
  \/ \E c \in Reqs : commitMultipleFiles_updateRef(c)
  \/ \E c \in Reqs : revertToVersion_getJson(c)
  \/ \E c \in Reqs : revertToVersion_getPng(c)
  \/ \E c \in Reqs : revertToVersion_getRef(c)
  \/ \E c \in Reqs : revertToVersion_getCommit(c)
  \/ \E c \in Reqs : revertToVersion_createJsonBlob(c)
  \/ \E c \in Reqs : revertToVersion_createPngBlob(c)
  \/ \E c \in Reqs : revertToVersion_createTree(c)
  \/ \E c \in Reqs : revertToVersion_createCommit(c)
  \/ \E c \in Reqs : revertToVersion_updateRef(c)
  \/ \E c \in Reqs : createBranch_reposGet(c)
  \/ \E c \in Reqs : createBranch_getBranch(c)
  \/ \E c \in Reqs : createBranch_createRef(c)

SpecUrlOps == InitUrlOps /\ [][UrlOpsNext]_vars

\* ------------------------------------------------------ POST /create_release
Versions == {"v1", "v2"}
AssetNames == {"character.json", "card.png"}

\* octokit.repos.createRelease is refused (422) when the tag has a release
\* already, or when the target branch does not exist
TagExists(tag) == \E i \in 1..Len(releases) : releases[i].tag = tag

\* the body of a response: the release for a success, the message of the
\* caught error otherwise
ReleaseDetails(id) == <<"release", id>>
ErrorDetails(res) == <<"error", res>>

\* ensureAuthenticated, then the handler: all parameters are present
PostCreateRelease(c, version, targetBranch, art) ==
  /\ req[c].pc = "idle"
  /\ req' = [req EXCEPT ![c] =
               IF ~Authenticated
               THEN [IdleReq EXCEPT !.op = "release", !.endpoint = "/create_release",
                                    !.pc = "responded",
                                    !.response = [status |-> 401, message |-> "unauthenticated",
                                                  details |-> None]]
               ELSE [IdleReq EXCEPT !.op = "release", !.endpoint = "/create_release",
                                    !.pc = "createRelease", !.user = loggedInUser,
                                    !.version = version, !.branch = targetBranch, !.art = art]]
  /\ UNCHANGED <<provider, rest, log>>

\* catch (error): status 500 with the fixed message and error.message
Respond500(r, res) ==
  [r EXCEPT !.pc = "responded", !.result = res,
            !.response = [status |-> 500, message |-> "create release failed",
                          details |-> ErrorDetails(res)]]

\* a remote call of the handler was rejected
RouteFail(c, api, arg, res) ==
  /\ req' = [req EXCEPT ![c] = Respond500(@, res)]
  /\ log' = [log EXCEPT ![c] = Append(@, Call(api, arg, res, None))]

\* loggedInUser.accessToken throws a TypeError when loggedInUser is null
RouteTypeError(c) ==
  /\ req' = [req EXCEPT ![c] = Respond500(@, "TypeError")]
  /\ log' = log

\* step 1: createRelease(loggedInUser.accessToken, repoUrl, version, ...)
PostCreateRelease_createRelease(c) ==
  LET r == req[c]
      arg == [token |-> loggedInUser, tag_name |-> r.version, target_commitish |-> r.branch]
      id == Len(releases) + 1
  IN
  /\ r.op = "release" /\ r.pc = "createRelease"
  /\ IF loggedInUser = NoUser
     THEN releases' = releases /\ RouteTypeError(c)
     ELSE IF TagExists(arg.tag_name)
     THEN releases' = releases /\ RouteFail(c, "createRelease", arg, "exists")
     ELSE IF refs[arg.target_commitish] = None
     THEN releases' = releases /\ RouteFail(c, "createRelease", arg, "invalid")
     ELSE \/ /\ releases' = Append(releases, [tag |-> arg.tag_name, target |-> arg.target_commitish,
                                              assets |-> [n \in AssetNames |-> None]])
             /\ req' = [req EXCEPT ![c].pc = "uploadJson", ![c].releaseId = id]
             /\ log' = [log EXCEPT ![c] = Append(@, Call("createRelease", arg, "ok", id))]
          \/ releases' = releases /\ RouteFail(c, "createRelease", arg, "error")
  /\ UNCHANGED <<provider, loggedInUser, sessionFile, loggedOut>>

\* uploadReleaseAsset: Buffer.from(assetData, "base64") is attached under the
\* name; the provider refuses a name the release has already
UploadAsset(c, name, assetData, nextPc) ==
  LET r == req[c]
      arg == [token |-> loggedInUser, release_id |-> r.releaseId, name |-> name,
              data |-> Decode(assetData, "base64")]
  IN
  IF loggedInUser = NoUser
  THEN releases' = releases /\ RouteTypeError(c)
  ELSE IF releases[arg.release_id].assets[name] # None
  THEN releases' = releases /\ RouteFail(c, "uploadReleaseAsset", arg, "exists")
  ELSE \/ /\ releases' = [releases EXCEPT ![arg.release_id].assets[name] = arg.data]
          /\ req' = [req EXCEPT ![c].pc = nextPc]
          /\ log' = [log EXCEPT ![c] = Append(@, Call("uploadReleaseAsset", arg, "ok", name))]
       \/ releases' = releases /\ RouteFail(c, "uploadReleaseAsset", arg, "error")

\* variant: the export is started without the upload of character.json
PostCreateRelease_skipJson(c) ==
  /\ req[c].op = "release" /\ req[c].pc = "uploadJson"
  /\ req' = [req EXCEPT ![c].pc = "export"]
  /\ UNCHANGED <<provider, rest, log>>

\* step 2: JSON.stringify(characterData) is uploaded as character.json
PostCreateRelease_uploadJson(c) ==
  /\ req[c].op = "release" /\ req[c].pc = "uploadJson"
  /\ UploadAsset(c, "character.json", Base64(BytesOf(jsonContent(req[c].art.json))), "export")
  /\ UNCHANGED <<provider, loggedInUser, sessionFile, loggedOut>>

\* step 3: the current card.png is exported from SillyTavern; a response that
\* is not ok throws
PostCreateRelease_export(c) ==
  /\ req[c].op = "release" /\ req[c].pc = "export"
  /\ \/ req' = [req EXCEPT ![c].pc = "uploadPng", ![c].cardPngBuffer = <<"raw", req[c].art.png>>]
     \/ req' = [req EXCEPT ![c] = Respond500(@, "export")]
  /\ UNCHANGED <<provider, rest, log>>

\* step 4: the exported image is uploaded as card.png
PostCreateRelease_uploadPng(c) ==
  /\ req[c].op = "release" /\ req[c].pc = "uploadPng"
  /\ UploadAsset(c, "card.png", Base64(req[c].cardPngBuffer), "respond")
  /\ UNCHANGED <<provider, loggedInUser, sessionFile, loggedOut>>

\* res.status(200).send({message, details: releaseData})
PostCreateRelease_respond(c) ==
  /\ req[c].op = "release" /\ req[c].pc = "respond"
  /\ req' = [req EXCEPT ![c].pc = "responded", ![c].result = "ok",
                        ![c].response = [status |-> 200, message |-> "created with assets",
                                         details |-> ReleaseDetails(req[c].releaseId)]]
  /\ UNCHANGED <<provider, rest, log>>

ReleaseNext ==
  \/ \E c \in Reqs, v \in Versions, b \in Branches, art \in Arts : PostCreateRelease(c, v, b, art)
  \/ \E c \in Reqs : PostCreateRelease_createRelease(c)
  \/ \E c \in Reqs : PostCreateRelease_uploadJson(c)
  \/ \E c \in Reqs : PostCreateRelease_export(c)
  \/ \E c \in Reqs : PostCreateRelease_uploadPng(c)
  \/ \E c \in Reqs : PostCreateRelease_respond(c)

SpecRelease == Init /\ [][ReleaseNext]_vars

\* ---------------------------------------------- every operation, one address
\* The operations that write (syncFile, commitMultipleFiles, createBranch,
\* revertToVersion, createRelease and uploadReleaseAsset) run side by side on
\* the repository of InitUrlOps, named by a well-formed address.
InitAllOps ==
  /\ LET t == [p \in Paths |-> BlobSha(OldBytes)] IN
       /\ trees = {TreeSha(t)}
       /\ commits = <<[tree |-> TreeSha(t), parents |-> <<>>, message |-> "Initial commit"]>>
  /\ blobs = {BlobSha(OldBytes)}
  /\ refs = [b \in Branches |-> IF b = "main" THEN CommitSha(1) ELSE None]
  /\ enforceFF \in BOOLEAN
  /\ req = [c \in Reqs |-> [IdleReq EXCEPT !.op = "parse", !.pc = "parse",
                                           !.href = [ok |-> TRUE, pathname |-> <<"/", "a", "/", "b">>]]]
  /\ log = [c \in Reqs |-> <<>>]
  /\ RestInit

\* POST /create_release reaches createRelease, whose parseRepoUrl throws into
\* the catch of the handler or returns
callCreateRelease(c, version, art) ==
  /\ req[c].op = "parse" /\ req[c].pc = "parse"
  /\ req' = [req EXCEPT ![c] =
               IF parseRepoUrl(req[c].href).threw
               THEN Respond500([@ EXCEPT !.op = "release"], "invalid")
               ELSE [@ EXCEPT !.op = "release", !.endpoint = "/create_release",
                              !.pc = "createRelease", !.user = loggedInUser,
                              !.version = version, !.branch = "main", !.art = art]]
  /\ UNCHANGED <<provider, rest, log>>

AllOpsNext ==
  \/ UrlOpsNext
  \/ \E c \in Reqs, v \in Versions, art \in Arts : callCreateRelease(c, v, art)
  \/ \E c \in Reqs : PostCreateRelease_createRelease(c)
  \/ \E c \in Reqs : PostCreateRelease_uploadJson(c)
  \/ \E c \in Reqs : PostCreateRelease_export(c)
  \/ \E c \in Reqs : PostCreateRelease_uploadPng(c)
  \/ \E c \in Reqs : PostCreateRelease_respond(c)

SpecAllOps == InitAllOps /\ [][AllOpsNext]_vars

\* ------------------------------------------------------------ getFileContent
\* What octokit.repos.getContent answers for a path that exists: a file with
\* its content inline, a file with a download_url only (large files), an
\* array (the path is a directory), or metadata with neither (a submodule).
Shapes == {"inline", "download", "directory", "bare"}

\* the refs a read may name: the commits of the repository and one that does
\* not exist
Hashes == {CommitSha(n) : n \in 1..2}

\* the blob at a path of a ref; None when the commit or the path is missing
ReadAt(hash, p) == IF hash[2] \in 1..Len(commits) THEN FileAtCommit(hash, p) ELSE None

getFileContent_call(c, hash, fileName) ==
  /\ req[c].pc = "idle"
  /\ req' = [req EXCEPT ![c] = [IdleReq EXCEPT !.op = "read", !.pc = "getContent",
                                               !.hash = hash, !.fileName = fileName]]
  /\ UNCHANGED <<provider, rest, log>>

\* variant: the catch block turns every error into null
ReadCaughtAll(c, api, arg, res) ==
  /\ req' = [req EXCEPT ![c].pc = "null"]
  /\ log' = [log EXCEPT ![c] = Append(@, Call(api, arg, res, None))]

\* catch (error): status 404 returns null, anything else is thrown again
ReadCaught(c, api, arg, res) ==
  /\ req' = [req EXCEPT ![c].pc = IF res = "notfound" THEN "null" ELSE "failed",
                        ![c].result = IF res = "notfound" THEN @ ELSE res]
  /\ log' = [log EXCEPT ![c] = Append(@, Call(api, arg, res, None))]

\* the returned object: base64 content and the sha of the blob
ReadResult(blob) == [content |-> Base64(blob[2]), sha |-> blob]

\* octokit.repos.getContent({path: fileName, ref: hash}) and the branches on
\* the shape of data
getFileContent_getContent(c) ==
  LET r == req[c]
      arg == [path |-> r.fileName, ref |-> r.hash]
      blob == ReadAt(arg.ref, arg.path)
  IN
  /\ r.op = "read" /\ r.pc = "getContent"
  /\ \/ /\ blob = None
        /\ ReadCaught(c, "getContent", arg, "notfound")
     \/ ReadCaught(c, "getContent", arg, "error")
     \/ /\ blob # None
        /\ \E shape \in Shapes :
             /\ req' = [req EXCEPT ![c] =
                          IF shape = "inline"
                          THEN [@ EXCEPT !.pc = "done", !.result = ReadResult(blob)]
                          ELSE IF shape = "download"
                          THEN [@ EXCEPT !.pc = "download", !.fileSha = blob]
                          ELSE [@ EXCEPT !.pc = "null"]]
             /\ log' = [log EXCEPT ![c] = Append(@, Call("getContent", arg, "ok", shape))]
  /\ UNCHANGED <<provider, rest>>

\* fetch(data.download_url): a response that is not ok throws an Error without
\* a status; the bytes are returned as base64 otherwise
getFileContent_download(c) ==
  LET r == req[c] IN
  /\ r.op = "read" /\ r.pc = "download"
  /\ \/ /\ req' = [req EXCEPT ![c].pc = "done", ![c].result = ReadResult(r.fileSha)]
        /\ log' = [log EXCEPT ![c] = Append(@, Call("fetch", r.fileSha, "ok", None))]
     \/ ReadCaught(c, "fetch", r.fileSha, "download")
  /\ UNCHANGED <<provider, rest>>

ReadNext ==
  \/ \E c \in Reqs, h \in Hashes, p \in Paths : getFileContent_call(c, h, p)
  \/ \E c \in Reqs : getFileContent_getContent(c)
  \/ \E c \in Reqs : getFileContent_download(c)

SpecRead == Init /\ [][ReadNext]_vars

\* -------------------------------------------------------------- getCommitDiff
\* The file list of a commit as octokit.repos.getCommit reports it: one entry
\* per path whose blob differs from the first parent's (every file of a root
\* commit), with a patch for text files and none for the image.
ParentTree(sha) ==
  IF CommitOf(sha).parents = <<>>
  THEN [p \in Paths |-> None]
  ELSE TreeOf(CommitOf(CommitOf(sha).parents[1]).tree)

PatchOf(sha, p) == <<"patch", ParentTree(sha)[p], FileAtCommit(sha, p)>>

FileList(sha) ==
  {[filename |-> p, patch |-> IF p = "card.png" THEN <<>> ELSE <<PatchOf(sha, p)>>] :
     p \in {q \in Paths : ParentTree(sha)[q] # FileAtCommit(sha, q)}}

DiffHashes == {CommitSha(n) : n \in 1..3}

\* the fixed text returned when there is no patch to show
NoTextualChange == <<"no textual change">>

\* variant: null when the file is not in the list
getCommitDiffOrNull(files, filePath) ==
  IF files = <<>> THEN NoTextualChange
  ELSE IF ~\E f \in files[1] : f.filename = filePath THEN None
  ELSE LET file == CHOOSE f \in files[1] : f.filename = filePath IN
       IF file.patch = <<>> THEN NoTextualChange ELSE file.patch[1]

\* commitData.files?.find(f => f.filename === filePath)?.patch ?? sentinel;
\* files is <<>> when the answer has no file list
getCommitDiffResult(files, filePath) ==
  IF files = <<>> THEN NoTextualChange
  ELSE IF ~\E f \in files[1] : f.filename = filePath THEN NoTextualChange
  ELSE LET file == CHOOSE f \in files[1] : f.filename = filePath IN
       IF file.patch = <<>> THEN NoTextualChange ELSE file.patch[1]

getCommitDiff(c, commitSha, filePath) ==
  /\ req[c].pc = "idle"
  /\ req' = [req EXCEPT ![c] = [IdleReq EXCEPT !.op = "diff", !.pc = "getCommit",
                                               !.hash = commitSha, !.fileName = filePath]]
  /\ UNCHANGED <<provider, rest, log>>

\* octokit.repos.getCommit({ref: commitSha}) and the return
getCommitDiff_getCommit(c) ==
  LET r == req[c] IN
  /\ r.op = "diff" /\ r.pc = "getCommit"
  /\ \/ /\ r.hash[2] \notin 1..Len(commits)
        /\ Fail(c, "repos.getCommit", r.hash, "notfound")
     \/ Fail(c, "repos.getCommit", r.hash, "error")
     \/ /\ r.hash[2] \in 1..Len(commits)
        /\ \E files \in {<<>>, <<FileList(r.hash)>>} :
             /\ req' = [req EXCEPT ![c].pc = "done",
                                   ![c].result = getCommitDiffResult(files, r.fileName)]
             /\ log' = [log EXCEPT ![c] = Append(@, Call("repos.getCommit", r.hash, "ok", files))]
  /\ UNCHANGED <<provider, rest>>

DiffNext ==
  \/ \E c \in Reqs, h \in DiffHashes, p \in Paths : getCommitDiff(c, h, p)
  \/ \E c \in Reqs : getCommitDiff_getCommit(c)

SpecDiff == InitRevert /\ [][DiffNext]_vars

\* ------------------------------------------------------------ request timeout
RequestTimeoutMs == 60000               \* request: { timeout: 60000 }
NoTimeout == 0                          \* new Octokit({ auth: token })

\* the timeout of the client each operation builds
ClientTimeout(op) ==
  IF op \in {"sync", "commit", "branch", "diff"} THEN RequestTimeoutMs ELSE NoTimeout

\* the steps at which an operation waits for the provider
RemoteSteps ==
  {"getContent", "putContent", "getRef", "getCommit", "blobs", "createTree", "createCommit",
   "updateRef", "getJson", "getPng", "blobJson", "blobPng", "reposGet",
   "getBranch", "createRef", "seed", "createRelease", "uploadJson", "uploadPng"}

\* the provider does not answer a call: a client with a timeout rejects the
\* call when the time is up and the operation fails; a client without one
\* waits for good
Unanswered(c) ==
  /\ req[c].pc \in RemoteSteps
  /\ IF ClientTimeout(req[c].op) = NoTimeout
     THEN /\ req' = [req EXCEPT ![c].pc = "hung"]
          /\ log' = [log EXCEPT ![c] = Append(@, Call("request", req[c].pc, "pending", None))]
     ELSE Fail(c, "request", req[c].pc, "timeout")
  /\ UNCHANGED <<provider, rest>>

TimeoutNext ==
  \/ AllOpsNext
  \/ \E c \in Reqs : Unanswered(c)

SpecTimeout == InitAllOps /\ [][TimeoutNext]_vars

\* ------------------------------------------------------------------- session
\* GET /github_callback for a user who authorised the application
GithubCallback(c, u) ==
  /\ req[c].pc = "idle"
  /\ req' = [req EXCEPT ![c] = [IdleReq EXCEPT !.op = "callback", !.endpoint = "/github_callback",
                                               !.pc = "exchange", !.user = u]]
  /\ UNCHANGED <<provider, rest, log>>

\* catch (error), or no access_token in the answer: status 500
CallbackFailed(r, res) ==
  [r EXCEPT !.pc = "responded", !.result = res,
            !.response = [status |-> 500, message |-> "authentication failed", details |-> None]]

\* POST /login/oauth/access_token
GithubCallback_exchange(c) ==
  /\ req[c].op = "callback" /\ req[c].pc = "exchange"
  /\ \/ req' = [req EXCEPT ![c].pc = "getAuthenticated"]
     \/ req' = [req EXCEPT ![c] = CallbackFailed(@, "error")]
  /\ UNCHANGED <<provider, rest, log>>

\* users.getAuthenticated, then loggedInUser = {...userData, accessToken}
GithubCallback_getAuthenticated(c) ==
  /\ req[c].op = "callback" /\ req[c].pc = "getAuthenticated"
  /\ \/ /\ loggedInUser' = req[c].user
        /\ loggedOut' = FALSE
        /\ req' = [req EXCEPT ![c].pc = "save"]
     \/ /\ req' = [req EXCEPT ![c] = CallbackFailed(@, "error")]
        /\ UNCHANGED <<loggedInUser, loggedOut>>
  /\ UNCHANGED <<provider, releases, sessionFile, log>>

\* saveSessionToFile: a failed write is logged and nothing else
saveSessionToFile(u) == {u, sessionFile}

\* await saveSessionToFile(loggedInUser); res.redirect(...)
GithubCallback_save(c) ==
  /\ req[c].op = "callback" /\ req[c].pc = "save"
  /\ sessionFile' \in saveSessionToFile(req[c].user)
  /\ req' = [req EXCEPT ![c].pc = "responded", ![c].result = "ok",
                        ![c].response = [status |-> 302, message |-> "redirect", details |-> None]]
  /\ UNCHANGED <<provider, releases, loggedInUser, loggedOut, log>>

\* POST /logout up to its await: loggedInUser = null
Logout(c) ==
  /\ req[c].pc = "idle"
  /\ loggedInUser' = NoUser
  /\ req' = [req EXCEPT ![c] = [IdleReq EXCEPT !.op = "logout", !.endpoint = "/logout",
                                               !.pc = "unlink"]]
  /\ UNCHANGED <<provider, releases, sessionFile, loggedOut, log>>

\* clearSessionFile: the file is gone after fs.unlink, or the unlink failed
\* (ENOENT ignored, any other error logged) and the file is as it was
clearSessionFile == {NoFile, sessionFile}

\* await clearSessionFile(); res.status(200)
Logout_unlink(c) ==
  /\ req[c].op = "logout" /\ req[c].pc = "unlink"
  /\ sessionFile' \in clearSessionFile
  /\ loggedOut' = (loggedInUser = NoUser)
  /\ req' = [req EXCEPT ![c].pc = "responded", ![c].result = "ok",
                        ![c].response = [status |-> 200, message |-> "logged out", details |-> None]]
  /\ UNCHANGED <<provider, releases, loggedInUser, log>>

\* loadSessionFromFile: the user of the file; null stays when there is no file
loadSessionFromFile == IF sessionFile = NoFile THEN NoUser ELSE sessionFile

\* the process exits and init runs again: the requests in flight are gone and
\* the session is loaded from the file
Restart ==
  /\ loggedInUser' = loadSessionFromFile
  /\ req' = [c \in Reqs |->
               IF req[c].pc \in {"idle", "responded"} THEN req[c] ELSE [req[c] EXCEPT !.pc = "aborted"]]
  /\ UNCHANGED <<provider, releases, sessionFile, loggedOut, log>>

SessionNext ==
  \/ ReleaseNext
  \/ \E c \in Reqs, u \in Users : GithubCallback(c, u)
  \/ \E c \in Reqs : GithubCallback_exchange(c)
  \/ \E c \in Reqs : GithubCallback_getAuthenticated(c)
  \/ \E c \in Reqs : GithubCallback_save(c)
  \/ \E c \in Reqs : Logout(c)
  \/ \E c \in Reqs : Logout_unlink(c)
  \/ Restart

SpecSession == Init /\ [][SessionNext]_vars

\* ------------------------------------- GET /download_card, POST /revert_version
\* Both handlers read character.json from the provider, export the current
\* card from SillyTavern, write the document into the image and import the
\* result into SillyTavern.  A header of the incoming request is <<>> when
\* the caller sent none.
HeaderValues == {<<>>, <<"h1">>, <<"h2">>}
IncomingHeaders == [csrf : HeaderValues, cookie : HeaderValues]
CardEndpoints == {"/download_card", "/revert_version"}

\* the ref a handler reads: the branch of /download_card, the target commit
\* of /revert_version
CardRefs(endpoint) ==
  IF endpoint = "/download_card" THEN Branches ELSE {CommitSha(n) : n \in 1..3}

\* the blob of a path at a branch or at a commit; None when either is missing
CardReadAt(hash, p) ==
  IF hash \in Branches THEN FileAt(hash, p) ELSE ReadAt(hash, p)

\* variant: the server sends a value of its own
ForwardedOwn(v) == {<<"server">>}

\* what fetch sends for a header value taken from req.headers: the value
\* itself; for a header the caller did not send, whatever the HTTP client
\* makes of undefined
Forwarded(v) == IF v = <<>> THEN {<<>>, <<"undefined">>} ELSE {v}

ExchangeHeaders(h) ==
  {[csrf |-> a, cookie |-> b] : a \in Forwarded(h.csrf), b \in Forwarded(h.cookie)}

\* write(cardPngBuffer, characterJsonContent)
write(cardPngBuffer, characterJsonContent) == <<"card", cardPngBuffer, characterJsonContent>>

\* ensureAuthenticated, then the handler: all parameters are present
CardRoute(c, endpoint, hash, h) ==
  /\ req[c].pc = "idle"
  /\ hash \in CardRefs(endpoint)
  /\ req' = [req EXCEPT ![c] =
               IF ~Authenticated
               THEN [IdleReq EXCEPT !.op = "card", !.endpoint = endpoint, !.pc = "responded",
                                    !.response = [status |-> 401, message |-> "unauthenticated",
                                                  details |-> None]]
               ELSE [IdleReq EXCEPT !.op = "card", !.endpoint = endpoint, !.pc = "getFile",
                                    !.user = loggedInUser, !.hash = hash, !.headers = h,
                                    !.fileName = "character.json"]]
  /\ UNCHANGED <<provider, rest, log>>

\* step 1: getFileContent(loggedInUser.accessToken, repoUrl, ref,
\* "character.json"); null throws
CardRoute_getFile(c) ==
  LET r == req[c]
      arg == [token |-> loggedInUser, path |-> r.fileName, ref |-> r.hash]
      blob == CardReadAt(arg.ref, arg.path)
  IN
  /\ r.op = "card" /\ r.pc = "getFile"
  /\ IF loggedInUser = NoUser
     THEN RouteTypeError(c)
     ELSE \/ /\ blob # None
             /\ req' = [req EXCEPT ![c].pc = "export",
                                   ![c].characterJsonContent =
                                      ToStringUtf8(Decode(ReadResult(blob).content, "base64"))]
             /\ log' = [log EXCEPT ![c] = Append(@, Call("getContent", arg, "ok", blob))]
          \/ /\ blob = None
             /\ RouteFail(c, "getContent", arg, "notfound")
          \/ RouteFail(c, "getContent", arg, "error")
  /\ UNCHANGED <<provider, rest>>

\* step 2: POST /api/characters/export of SillyTavern
CardRoute_export(c) ==
  LET r == req[c] IN
  /\ r.op = "card" /\ r.pc = "export"
  /\ \E hs \in ExchangeHeaders(r.headers) :
       LET arg == [headers |-> hs, body |-> "png"] IN
       \/ /\ req' = [req EXCEPT ![c].pc = "import", ![c].cardPngBuffer = <<"raw", "exported">>]
          /\ log' = [log EXCEPT ![c] = Append(@, Call("export", arg, "ok", None))]
       \/ RouteFail(c, "export", arg, "error")
  /\ UNCHANGED <<provider, rest>>

\* variant: the handler also moves "main" back to the first commit
CardRoute_importAndReset(c) ==
  LET r == req[c] IN
  /\ r.op = "card" /\ r.pc = "import"
  /\ req' = [req EXCEPT ![c].pc = "responded", ![c].result = "ok",
                        ![c].response = [status |-> 200, message |-> "card updated", details |-> None]]
  /\ log' = [log EXCEPT ![c] = Append(@, Call("import", [headers |-> r.headers, body |-> "card"], "ok", None))]
  /\ refs' = [refs EXCEPT !["main"] = CommitSha(1)]
  /\ UNCHANGED <<commits, blobs, trees, enforceFF, rest>>

\* steps 3 and 4: the document is written into the image and the card is
\* posted to /api/characters/import; then the answer
CardRoute_import(c) ==
  LET r == req[c] IN
  /\ r.op = "card" /\ r.pc = "import"
  /\ \E hs \in ExchangeHeaders(r.headers) :
       LET arg == [headers |-> hs, body |-> write(r.cardPngBuffer, r.characterJsonContent)] IN
       \/ /\ req' = [req EXCEPT ![c].pc = "responded", ![c].result = "ok",
                                ![c].response = [status |-> 200, message |-> "card updated",
                                                 details |-> None]]
          /\ log' = [log EXCEPT ![c] = Append(@, Call("import", arg, "ok", None))]
       \/ RouteFail(c, "import", arg, "error")
  /\ UNCHANGED <<provider, rest>>

CardNext ==
  \/ \E c \in Reqs, e \in CardEndpoints, h \in IncomingHeaders :
       \E hash \in CardRefs(e) : CardRoute(c, e, hash, h)
  \/ \E c \in Reqs : CardRoute_getFile(c)
  \/ \E c \in Reqs : CardRoute_export(c)
  \/ \E c \in Reqs : CardRoute_import(c)

SpecCard == Init /\ [][CardNext]_vars

\* --------------------------------------------------------- ensureAuthenticated
\* The middleware in front of a handler: 401 without a user or without a
\* token, next() otherwise.
ensureAuthenticated(c, endpoint, next) ==
  /\ req[c].pc = "idle"
  /\ IF Authenticated
     THEN next
     ELSE /\ req' = [req EXCEPT ![c] =
                       [IdleReq EXCEPT !.op = "guarded", !.endpoint = endpoint, !.pc = "responded",
                                       !.response = [status |-> 401, message |-> "unauthenticated",
                                                     details |-> None]]]
          /\ UNCHANGED <<provider, rest, log>>

\* router.post("/sync", ensureAuthenticated, handler)
RouteSync(c, b, art) == ensureAuthenticated(c, "/sync", PostSync(c, b, art))

GuardedEndpoints == {"/sync", "/create_release", "/download_card", "/revert_version"}

\* the server after init: the session file holds a login, does not exist, or
\* holds an object without a token
InitAuth ==
  /\ \E t \in InitTrees :
       /\ trees = {TreeSha(t)}
       /\ commits = <<[tree |-> TreeSha(t), parents |-> <<>>, message |-> "Initial commit"]>>
  /\ blobs = {BlobSha(OldBytes)}
  /\ refs = [b \in Branches |-> IF b = "main" THEN CommitSha(1) ELSE None]
  /\ enforceFF = TRUE
  /\ req = [c \in Reqs |-> IdleReq]
  /\ log = [c \in Reqs |-> <<>>]
  /\ releases = <<>>
  /\ sessionFile \in {"u1", NoFile, NoToken}
  /\ loggedInUser = loadSessionFromFile
  /\ loggedOut = FALSE

AuthNext ==
  \/ \E c \in Reqs, b \in Branches, art \in Arts : RouteSync(c, b, art)
  \/ \E c \in Reqs : syncFile_getContent(c)
  \/ \E c \in Reqs : syncFile_putContent(c)
  \/ ReleaseNext
  \/ \E c \in Reqs, e \in CardEndpoints :
       \E hash \in CardRefs(e) : CardRoute(c, e, hash, [csrf |-> <<"h1">>, cookie |-> <<"h2">>])
  \/ \E c \in Reqs : CardRoute_getFile(c)
  \/ \E c \in Reqs : CardRoute_export(c)
  \/ \E c \in Reqs : CardRoute_import(c)
  \/ \E c \in Reqs : Logout(c)
  \/ \E c \in Reqs : Logout_unlink(c)

SpecAuth == InitAuth /\ [][AuthNext]_vars

\* ------------------------------------------------------- read-only operations
\* getBranches, getBranchHeadSha, getReleases and getHistory are one GET each.
ReadOps == {"getBranches", "getBranchHeadSha", "getReleases", "getHistory"}
PerPage == 100                          \* listCommits: per_page

RECURSIVE HistoryFrom(_)
\* the commits reachable from a commit by first parents, newest first
HistoryFrom(sha) ==
  IF CommitOf(sha).parents = <<>> THEN <<sha>> ELSE <<sha>> \o HistoryFrom(CommitOf(sha).parents[1])

\* octokit.repos.listCommits({sha: branch, path: fileName, per_page}): the
\* history of the branch, of the commits that changed the path when one is
\* given, cut at the page size
listCommits(b, fileName) ==
  LET all == HistoryFrom(refs[b])
      touching == IF fileName = <<>> THEN all
                  ELSE SelectSeq(all, LAMBDA x : ParentTree(x)[fileName[1]] # FileAtCommit(x, fileName[1]))
  IN SubSeq(touching, 1, IF Len(touching) < PerPage THEN Len(touching) ELSE PerPage)

\* what each operation returns from the answer of its call
ReadOnlyResult(r) ==
  IF r.op = "getBranches" THEN {[name |-> b, current |-> FALSE] : b \in {x \in Branches : refs[x] # None}}
  ELSE IF r.op = "getBranchHeadSha" THEN refs[r.branch]
  ELSE IF r.op = "getReleases" THEN releases
  ELSE [history |-> [i \in 1..Len(listCommits(r.branch, r.baseBranchName)) |->
                       [hash |-> listCommits(r.branch, r.baseBranchName)[i],
                        message |-> CommitOf(listCommits(r.branch, r.baseBranchName)[i]).message]]]

\* the operation is called; the optional fileName of getHistory is kept where
\* the optional argument of a request is kept
ReadOnlyOp(c, op, b, fileName) ==
  /\ req[c].pc = "idle"
  /\ req' = [req EXCEPT ![c] = [IdleReq EXCEPT !.op = op, !.pc = "get", !.branch = b,
                                               !.baseBranchName = fileName]]
  /\ UNCHANGED <<provider, rest, log>>

\* the one call of the operation and its return
ReadOnlyOp_get(c) ==
  LET r == req[c]
      needsBranch == r.op \in {"getBranchHeadSha", "getHistory"}
  IN
  /\ r.op \in ReadOps /\ r.pc = "get"
  /\ \/ /\ needsBranch /\ refs[r.branch] = None
        /\ Fail(c, r.op, r.branch, "notfound")
     \/ Fail(c, r.op, r.branch, "error")
     \/ /\ needsBranch => refs[r.branch] # None
        /\ req' = [req EXCEPT ![c].pc = "done", ![c].result = ReadOnlyResult(r)]
        /\ log' = [log EXCEPT ![c] = Append(@, Call(r.op, r.branch, "ok", None))]
  /\ UNCHANGED <<provider, rest>>

\* the operations and endpoints that only read, next to syncFile, which writes
ReadOnlyNext ==
  \/ \E c \in Reqs, op \in ReadOps, b \in Branches, f \in {<<>>, <<"character.json">>} :
       ReadOnlyOp(c, op, b, f)
  \/ \E c \in Reqs : ReadOnlyOp_get(c)
  \/ \E c \in Reqs, h \in DiffHashes : getCommitDiff(c, h, "character.json")
  \/ \E c \in Reqs : getCommitDiff_getCommit(c)
  \/ \E c \in Reqs, h \in Hashes : getFileContent_call(c, h, "card.png")
  \/ \E c \in Reqs : getFileContent_getContent(c)
  \/ \E c \in Reqs : getFileContent_download(c)
  \/ \E c \in Reqs, e \in CardEndpoints :
       \E hash \in CardRefs(e) : CardRoute(c, e, hash, [csrf |-> <<"h1">>, cookie |-> <<"h2">>])
  \/ \E c \in Reqs : CardRoute_getFile(c)
  \/ \E c \in Reqs : CardRoute_export(c)
  \/ \E c \in Reqs : CardRoute_import(c)
  \/ \E c \in Reqs : syncFile(c, "main", "character.json", Str(1))
  \/ \E c \in Reqs : syncFile_getContent(c)
  \/ \E c \in Reqs : syncFile_putContent(c)

SpecReadOnly == InitRevert /\ [][ReadOnlyNext]_vars

\* ------------------------------------------------------------- properties
\* the blob a caller means by a file of its list
FileBlob(f) == BlobSha(BytesOf(f.content))
Named(fs, p) == \E i \in 1..Len(fs) : fs[i].path = p
TreeOfCommit(sha) == TreeOf(CommitOf(sha).tree)
Calls(c, api) == {k \in 1..Len(log[c]) : log[c][k].api = api}
OkCalls(c, api) == {k \in Calls(c, api) : log[c][k].res = "ok"}
Others(c) == Reqs \ {c}

\* C1: a reader of a branch only ever sees the head from before an operation
\* or the head a completed operation installed, and the tree of an installed
\* head holds the new blob of every file of that operation: never the new A
\* without the new B.
C1_HeadBeforeOrAfter ==
  \A b \in Branches :
    refs[b] # None =>
      \/ refs[b] = CommitSha(1)
      \/ \E c \in Reqs :
           /\ req[c].pc = "done" /\ req[c].branch = b /\ req[c].newCommit = refs[b]
           /\ \A i \in 1..Len(req[c].files) :
                TreeOfCommit(refs[b])[req[c].files[i].path] = FileBlob(req[c].files[i])

\* C1 witness: a two-file commit is installed while the other request has
\* read the old head and is still at work on it.
C1_Witness ==
  \E c \in Reqs, d \in Reqs :
    /\ c # d
    /\ req[c].op = "commit" /\ req[c].pc = "done" /\ Len(req[c].files) = 2
    /\ refs[req[c].branch] = req[c].newCommit
    /\ \A i \in 1..2 : TreeOfCommit(req[c].latestCommitSha)[req[c].files[i].path]
                         # FileBlob(req[c].files[i])
    /\ req[d].op = "commit" /\ req[d].pc = "blobs" /\ req[d].latestCommitSha = req[c].latestCommitSha

\* C2: createTree is called only after every createBlob of the operation
\* succeeded, createCommit only after createTree succeeded, updateRef only
\* after createCommit succeeded; a ref is never moved to a commit before its
\* blobs, its tree and the commit itself exist.
C2_FanOutFanIn ==
  \A c \in Reqs :
    req[c].op = "commit" =>
      /\ \A k \in Calls(c, "createTree") :
           Cardinality({j \in OkCalls(c, "createBlob") : j < k}) = Len(req[c].files)
      /\ \A k \in Calls(c, "createCommit") : \E j \in OkCalls(c, "createTree") : j < k
      /\ \A k \in Calls(c, "updateRef") : \E j \in OkCalls(c, "createCommit") : j < k
      /\ \A k \in OkCalls(c, "updateRef") :
           /\ log[c][k].arg.sha[2] \in 1..Len(commits)
           /\ CommitOf(log[c][k].arg.sha).tree \in trees
           /\ \A i \in 1..Len(req[c].files) : FileBlob(req[c].files[i]) \in blobs

\* C2 witness: the second blob completed before the first one and the
\* operation went through to the ref update.
C2_Witness ==
  \E c \in Reqs :
    /\ req[c].op = "commit" /\ req[c].pc = "done" /\ Len(req[c].files) = 2
    /\ \E j, k \in OkCalls(c, "createBlob") : j < k /\ log[c][j].arg.i = 2 /\ log[c][k].arg.i = 1

InitialRefs == [b \in Branches |-> IF b = "main" THEN CommitSha(1) ELSE None]
FailedCalls(c) == {k \in 1..Len(log[c]) : log[c][k].res # "ok"}

\* C3: when a remote call of commitMultipleFiles fails the operation fails
\* and has not moved the ref; after a failed call nothing is called but the
\* blob creations that were already under way, so a failure of step 1 means
\* no blob, and no failed operation has a tree, commit or ref call after the
\* failure.
C3_FailureStops ==
  /\ \A c \in Reqs :
       req[c].op = "commit" =>
         /\ \A k \in FailedCalls(c) :
              /\ req[c].pc = "failed"
              /\ \A j \in (k + 1)..Len(log[c]) :
                   log[c][k].api = "createBlob" /\ log[c][j].api = "createBlob"
         /\ req[c].pc = "failed" =>
              /\ FailedCalls(c) # {}
              /\ OkCalls(c, "updateRef") = {}
              /\ req[c].newCommit # None => \A b \in Branches : refs[b] # req[c].newCommit
              /\ (\A d \in Others(c) : req[d].pc # "done") => refs = InitialRefs
  /\ (\A c \in Reqs : Calls(c, "createBlob") = {}) => blobs = {BlobSha(OldBytes)}

\* C3 witness: the ref update itself failed after the commit was created and
\* the branch still points at the head read in step 1.
C3_Witness ==
  \E c \in Reqs :
    /\ req[c].op = "commit" /\ req[c].pc = "failed" /\ req[c].newCommit # None
    /\ log[c][Len(log[c])].api = "updateRef" /\ log[c][Len(log[c])].res = "error"
    /\ refs[req[c].branch] = req[c].latestCommitSha

SameBase(c, d) ==
  /\ c # d /\ req[c].op = "commit" /\ req[d].op = "commit"
  /\ req[c].branch = req[d].branch
  /\ req[c].latestCommitSha # None /\ req[c].latestCommitSha = req[d].latestCommitSha

\* C4: the ref update of the commit engine carries the new sha only, no
\* force and no expected head.  When two operations read the same head, a
\* provider that enforces fast-forward updates lets only one of them move the
\* ref; a provider that does not never rejects the second one, and when both
\* succeeded neither commit descends from the other, so the one the branch
\* does not point at is lost.
C4_RaceLostOrRejected ==
  /\ \A c \in Reqs :
       req[c].op = "commit" =>
         \A k \in Calls(c, "updateRef") :
           /\ log[c][k].arg = [ref |-> req[c].branch, sha |-> req[c].newCommit, force |-> FALSE]
           /\ ~enforceFF => log[c][k].res # "conflict"
  /\ \A c, d \in Reqs :
       SameBase(c, d) /\ req[c].pc = "done" =>
         /\ enforceFF => req[d].pc # "done"
         /\ req[d].pc = "done" =>
              /\ ~IsAncestor(req[c].newCommit, req[d].newCommit)
              /\ ~IsAncestor(req[d].newCommit, req[c].newCommit)
              /\ \E x \in {c, d} : ~IsAncestor(req[x].newCommit, refs[req[c].branch])

\* C4 witness: both operations returned success and the commit of the first
\* is not reachable from the branch head.
C4_Witness ==
  \E c, d \in Reqs :
    /\ SameBase(c, d) /\ req[c].pc = "done" /\ req[d].pc = "done"
    /\ refs[req[c].branch] = req[d].newCommit
    /\ ~IsAncestor(req[c].newCommit, refs[req[c].branch])

\* C5: every commit the engine creates has exactly one parent, the head sha
\* that getRef returned to the same invocation; after a successful operation
\* with no other writer the branch head is the returned commit, its parent is
\* the prior head and the history has grown by one commit.
C5_SingleParent ==
  \A c \in Reqs :
    req[c].op = "commit" =>
      /\ \A k \in OkCalls(c, "createCommit") :
           /\ Len(CommitOf(log[c][k].ret).parents) = 1
           /\ CommitOf(log[c][k].ret).parents[1] = log[c][1].ret
           /\ log[c][1].api = "getRef"
      /\ (req[c].pc = "done" /\ \A d \in Others(c) : req[d].pc = "idle") =>
           /\ refs[req[c].branch] = req[c].result
           /\ req[c].result = req[c].newCommit
           /\ CommitOf(req[c].result).parents = <<CommitSha(1)>>
           /\ Len(commits) = 2

\* C5 witness: one operation went through alone.
C5_Witness ==
  \E c \in Reqs :
    /\ req[c].op = "commit" /\ req[c].pc = "done" /\ \A d \in Others(c) : req[d].pc = "idle"
    /\ refs[req[c].branch] = req[c].newCommit /\ Len(req[c].files) = 1

FileAtPath(fs, p) == fs[CHOOSE i \in 1..Len(fs) : fs[i].path = p]
Changed(t, base) == {p \in Paths : t[p] # base[p]}

\* C6: the tree of the commit the engine creates is the tree of the head read
\* in step 1 with exactly the named paths replaced: a named path holds the
\* blob of that file's content, any other path the blob of the base tree.
C6_TreeIsBasePlusFiles ==
  \A c \in Reqs :
    (req[c].op = "commit" /\ req[c].newCommit # None) =>
      LET t == TreeOfCommit(req[c].newCommit)
          base == TreeOfCommit(req[c].latestCommitSha)
      IN /\ \A p \in Paths :
              t[p] = IF Named(req[c].files, p) THEN FileBlob(FileAtPath(req[c].files, p))
                                              ELSE base[p]
         /\ Cardinality(Changed(t, base)) <= Len(req[c].files)

\* C6 witness: two files given, exactly two changed entries, README.md kept.
C6_Witness ==
  \E c \in Reqs :
    /\ req[c].op = "commit" /\ req[c].pc = "done" /\ Len(req[c].files) = 2
    /\ LET t == TreeOfCommit(req[c].newCommit)
           base == TreeOfCommit(req[c].latestCommitSha)
       IN /\ Changed(t, base) = {"character.json", "card.png"}
          /\ base["character.json"] # None
          /\ t["README.md"] = base["README.md"] /\ t["README.md"] # None

\* C7: with an empty file list the engine creates no blob, and when it
\* returns it has created a commit whose tree is the base tree and whose
\* parent is the prior head and has moved the branch to it.
C7_EmptyListCommits ==
  \A c \in Reqs :
    (req[c].op = "commit" /\ req[c].files = <<>>) =>
      /\ Calls(c, "createBlob") = {}
      /\ req[c].pc = "failed" => FailedCalls(c) # {}
      /\ req[c].pc = "done" =>
           /\ req[c].newCommit # None /\ req[c].newCommit # req[c].latestCommitSha
           /\ CommitOf(req[c].newCommit).tree = CommitOf(req[c].latestCommitSha).tree
           /\ CommitOf(req[c].newCommit).parents = <<req[c].latestCommitSha>>
           /\ \E k \in OkCalls(c, "updateRef") : log[c][k].arg.sha = req[c].newCommit
           /\ (\A d \in Others(c) : req[d].pc = "idle") => refs[req[c].branch] = req[c].newCommit

\* C7 witness: an empty commit went through alone and moved the branch.
C7_Witness ==
  \E c \in Reqs :
    /\ req[c].op = "commit" /\ req[c].files = <<>> /\ req[c].pc = "done"
    /\ \A d \in Others(c) : req[d].pc = "idle"
    /\ refs[req[c].branch] = req[c].newCommit
    /\ req[c].newCommit # CommitSha(1)
    /\ TreeOfCommit(req[c].newCommit) = TreeOfCommit(CommitSha(1))

\* C8: a push of a character whose document and image both changed lands as
\* one commit that holds both updates.
C8_PushHoldsBoth ==
  \A c \in Reqs :
    (req[c].endpoint = "/sync" /\ req[c].pc = "done") =>
      /\ TreeOfCommit(req[c].newCommit)["character.json"] = BlobSha(<<"raw", req[c].art.json>>)
      /\ TreeOfCommit(req[c].newCommit)["card.png"] = BlobSha(<<"raw", req[c].art.png>>)

SameFile(c, d) ==
  /\ c # d /\ req[c].op = "sync" /\ req[d].op = "sync"
  /\ req[c].branch = req[d].branch /\ req[c].files[1].path = req[d].files[1].path

\* C9: syncFile calls getContent first; a not-found answer is no error; then
\* it makes one createOrUpdateFileContents call, whose sha is the sha the
\* read returned when the file existed and is absent when it did not.
C9_ReadThenWrite ==
  \A c \in Reqs :
    req[c].op = "sync" =>
      LET L == log[c] IN
      /\ Len(L) <= 2
      /\ req[c].pc = "putContent" <=> (Len(L) = 1 /\ L[1].res \in {"ok", "notfound"})
      /\ req[c].pc = "done" => (Len(L) = 2 /\ L[2].res = "ok")
      /\ Len(L) >= 1 =>
           /\ L[1].api = "getContent"
           /\ L[1].arg = [path |-> req[c].files[1].path, ref |-> req[c].branch]
           /\ L[1].res = "ok" => L[1].ret # None
      /\ Len(L) = 2 =>
           /\ L[2].api = "createOrUpdateFileContents"
           /\ L[2].arg.path = req[c].files[1].path /\ L[2].arg.branch = req[c].branch
           /\ L[2].arg.sha = IF L[1].res = "ok" THEN L[1].ret ELSE None

\* C9 witness: one call found no file and created it without a sha, the next
\* call read the sha of that file and sent it with its update.
C9_Witness ==
  \E c, d \in Reqs :
    /\ SameFile(c, d) /\ req[c].pc = "done" /\ req[d].pc = "done"
    /\ log[c][1].res = "notfound" /\ log[c][2].arg.sha = None
    /\ log[d][1].res = "ok" /\ log[d][2].arg.sha = FileBlob(req[c].files[1])

\* C10: when a syncFile call has read the file before another call's write
\* and that write changed the file, its own write carries a stale sha: the
\* provider rejects it, the call fails with the conflict, the branch stays at
\* the commit of the successful call and the file holds that call's content.
C10_StaleWriteRejected ==
  \A c, d \in Reqs :
    ( /\ SameFile(c, d) /\ req[c].pc = "done"
      /\ req[d].raced /\ Len(log[d]) = 2
      /\ req[d].fileSha # FileBlob(req[c].files[1]) ) =>
        /\ req[d].pc = "failed" /\ req[d].result = "conflict"
        /\ refs[req[c].branch] = req[c].newCommit
        /\ FileAt(req[c].branch, req[c].files[1].path) = FileBlob(req[c].files[1])
        /\ Len(commits) = 2

\* C10 witness: both calls read the same sha, the first write went through
\* and the second was rejected.
C10_Witness ==
  \E c, d \in Reqs :
    /\ SameFile(c, d) /\ req[c].pc = "done" /\ req[d].raced
    /\ req[d].fileSha # None /\ req[d].fileSha = req[c].fileSha
    /\ req[d].pc = "failed" /\ req[d].result = "conflict"
    /\ FileAt(req[c].branch, req[c].files[1].path) = FileBlob(req[c].files[1])

\* C11: when syncFile is called again on the same path and branch after a
\* call that succeeded, with no other writer in between, the second call reads
\* exactly the blob SHA the first write produced, its write is never rejected
\* by the provider (the only failure left is a call that did not get through),
\* and when it succeeds its commit sits on top of the first one.
C11_SecondSyncAccepted ==
  \A d \in Reqs :
    req[d].op = "sync" /\ req[d].after # "none" =>
      LET c == req[d].after IN
      /\ req[c].pc = "done"
      /\ \A k \in Calls(d, "getContent") :
           log[d][k].res = "error" \/
             (log[d][k].res = "ok" /\ log[d][k].ret = BlobSha(Decode(log[c][2].arg.content, "base64")))
      /\ \A k \in Calls(d, "createOrUpdateFileContents") :
           /\ log[d][k].res \in {"ok", "error"}
           /\ log[d][k].arg.sha = BlobSha(Decode(log[c][2].arg.content, "base64"))
      /\ req[d].pc = "failed" => req[d].result = "error"
      /\ req[d].pc = "done" =>
           /\ refs[req[d].branch] = req[d].newCommit
           /\ CommitOf(req[d].newCommit).parents = <<req[c].newCommit>>
           /\ TreeOfCommit(req[d].newCommit)[req[d].files[1].path] = FileBlob(req[d].files[1])

\* C11 witness: both calls succeeded, the second with other content than the
\* first, on a file the first call created.
C11_Witness ==
  \E d \in Reqs :
    /\ req[d].op = "sync" /\ req[d].after # "none" /\ req[d].pc = "done"
    /\ req[d].files[1].content # req[req[d].after].files[1].content
    /\ log[req[d].after][1].res = "notfound"

RevertInitialRefs == [b \in Branches |-> IF b = "main" THEN CommitSha(2) ELSE CommitSha(1)]

\* C12: a revert only moves a branch forward: its commit has one parent, the
\* head getRef returned; updateRef is sent without force; the head the revert
\* read is an ancestor of the commit it installs; and where the provider
\* holds non-forced updates to fast-forwards, every commit that ever was the
\* head of a branch stays an ancestor of its head.
C12_ForwardOnly ==
  /\ \A c \in Reqs :
       req[c].op = "revert" =>
         /\ \A k \in Calls(c, "createCommit") :
              /\ log[c][k].arg.parents = <<req[c].latestCommitSha>>
              /\ \E j \in OkCalls(c, "getRef") : j < k /\ log[c][j].ret = req[c].latestCommitSha
         /\ \A k \in OkCalls(c, "createCommit") :
              CommitOf(log[c][k].ret).parents = <<req[c].latestCommitSha>>
         /\ \A k \in Calls(c, "updateRef") : ~log[c][k].arg.force
         /\ req[c].pc = "done" =>
              /\ req[c].newCommit # req[c].latestCommitSha
              /\ IsAncestor(req[c].latestCommitSha, req[c].newCommit)
              /\ enforceFF => IsAncestor(req[c].newCommit, refs[req[c].branch])
  /\ \A b \in Branches : enforceFF => IsAncestor(RevertInitialRefs[b], refs[b])

\* C12 witness: two reverts of one branch that both read the same head; one
\* was installed and the provider turned the other one down.
C12_Witness ==
  \E c \in Reqs, d \in Reqs :
    /\ req[c].op = "revert" /\ req[c].pc = "done"
    /\ req[d].op = "revert" /\ req[d].pc = "failed" /\ req[d].result = "conflict"
    /\ req[d].latestCommitSha = req[c].latestCommitSha
    /\ refs[req[c].branch] = req[c].newCommit

\* the remote calls of a revert before its updateRef (call k of its log), in
\* the order of the code: all of them succeeded, the image's blob is there
\* exactly when the target has an image
RevertCallsBefore(c, k) ==
  LET l == log[c]
      n == IF HasPng(req[c]) THEN 1 ELSE 0
      Ok(j, api) == l[j].api = api /\ l[j].res = "ok"
  IN
  /\ k = 8 + n
  /\ Ok(1, "getContent") /\ l[1].arg.path = "character.json"
  /\ l[2].api = "getContent" /\ l[2].arg.path = "card.png"
  /\ l[2].res = (IF HasPng(req[c]) THEN "ok" ELSE "notfound")
  /\ Ok(3, "getRef") /\ Ok(4, "getCommit")
  /\ Ok(5, "createBlob") /\ l[5].arg.path = "character.json"
  /\ HasPng(req[c]) => Ok(6, "createBlob") /\ l[6].arg.path = "card.png"
  /\ Ok(6 + n, "createTree") /\ Ok(7 + n, "createCommit")
  /\ l[k].api = "updateRef"

\* C13: updateRef is the last remote call of a revert and is sent only after
\* the contents were fetched and every blob, the tree and the commit were
\* created; a revert that failed has not moved the ref; and a head a revert
\* installed holds the document of the target and, when the target has an
\* image, the image of the target too: no head has the one without the other.
C13_RevertAtomic ==
  /\ \A c \in Reqs :
       req[c].op = "revert" =>
         /\ \A k \in Calls(c, "updateRef") : k = Len(log[c]) /\ RevertCallsBefore(c, k)
         /\ req[c].pc = "failed" =>
              /\ OkCalls(c, "updateRef") = {}
              /\ \A b \in Branches : refs[b] # req[c].newCommit
         /\ req[c].pc # "done" /\ (\A d \in Others(c) : req[d].pc # "done") => refs = RevertInitialRefs
  /\ \A b \in Branches :
       \/ refs[b] = RevertInitialRefs[b]
       \/ \E c \in Reqs :
            /\ req[c].op = "revert" /\ req[c].pc = "done" /\ req[c].branch = b
            /\ refs[b] = req[c].newCommit
            /\ TreeOfCommit(refs[b])["character.json"] = FileAtCommit(req[c].targetCommitSha, "character.json")
            /\ FileAtCommit(req[c].targetCommitSha, "card.png") # None =>
                 TreeOfCommit(refs[b])["card.png"] = FileAtCommit(req[c].targetCommitSha, "card.png")

\* C13 witness: a revert that restores the document and the image, both other
\* than the head's, is installed while another revert of the branch failed
\* after it had created its commit.
C13_Witness ==
  \E c \in Reqs, d \in Reqs :
    /\ req[c].op = "revert" /\ req[c].pc = "done" /\ HasPng(req[c])
    /\ refs[req[c].branch] = req[c].newCommit
    /\ \A p \in TrackedPaths :
         FileAtCommit(req[c].latestCommitSha, p) # FileAtCommit(req[c].targetCommitSha, p)
    /\ req[d].op = "revert" /\ req[d].pc = "failed" /\ req[d].branch = req[c].branch
    /\ OkCalls(d, "createCommit") # {}

\* C14: a revert to a target followed at once by a revert to the commit that
\* was the head before the first one leaves the head with the content of that
\* commit, path by path, whatever the branch and the target (card.png may be
\* in only one of the target and the head before the first revert).
C14_RevertRoundTrip ==
  \A d \in Reqs :
    req[d].op = "revert" /\ req[d].after # "none" /\ req[d].pc = "done" =>
      /\ req[d].latestCommitSha = req[req[d].after].newCommit
      /\ refs[req[d].branch] = req[d].newCommit
      /\ TreeOfCommit(req[d].newCommit) = TreeOfCommit(req[req[d].after].latestCommitSha)

\* C15: the tree of a revert commit is the tree of the head the revert read
\* with the restored paths replaced and nothing else: character.json, and
\* card.png when the target has one, hold the blobs they have at the target,
\* every other path holds the blob it has at that head.
C15_RevertFrame ==
  \A c \in Reqs :
    req[c].op = "revert" =>
      \A k \in OkCalls(c, "createCommit") :
        LET t == TreeOfCommit(log[c][k].ret)
            target == req[c].targetCommitSha
            head == req[c].latestCommitSha
        IN
        /\ log[c][k].arg.tree = req[c].newTree
        /\ t["character.json"] = FileAtCommit(target, "character.json")
        /\ t["card.png"] = (IF FileAtCommit(target, "card.png") = None
                             THEN FileAtCommit(head, "card.png")
                             ELSE FileAtCommit(target, "card.png"))
        /\ \A p \in Paths \ TrackedPaths : t[p] = FileAtCommit(head, p)

\* C15 witness: a revert is installed whose target has another README.md and
\* another document than the head, and no image where the head has one.
C15_Witness ==
  \E c \in Reqs :
    /\ req[c].op = "revert" /\ req[c].pc = "done"
    /\ FileAtCommit(req[c].targetCommitSha, "README.md") # FileAtCommit(req[c].latestCommitSha, "README.md")
    /\ FileAtCommit(req[c].targetCommitSha, "character.json") # FileAtCommit(req[c].latestCommitSha, "character.json")
    /\ FileAtCommit(req[c].targetCommitSha, "card.png") = None
    /\ FileAtCommit(req[c].latestCommitSha, "card.png") # None

\* the calls of a request that create an object or move a ref
WriteCalls(c) ==
  Calls(c, "createBlob") \cup Calls(c, "createTree") \cup Calls(c, "createCommit")
    \cup Calls(c, "updateRef")

\* C16: a target without card.png is no error: the image resolves to null,
\* the revert goes on (it fails only if a later call fails), no blob is
\* created and no tree entry sent for card.png, and null is returned for it;
\* a target without character.json fails the revert at once, before any blob,
\* tree or commit is created and before the ref is touched.
C16_MissingAtTarget ==
  \A c \in Reqs :
    req[c].op = "revert" =>
      /\ Len(log[c]) >= 2 /\ log[c][2].res = "notfound" =>
           /\ ~HasPng(req[c])
           /\ req[c].pc = "failed" => Len(log[c]) > 2 /\ req[c].result \in {"error", "conflict"}
           /\ \A k \in Calls(c, "createBlob") : log[c][k].arg.path # "card.png"
           /\ \A k \in Calls(c, "createTree") :
                \A i \in 1..Len(log[c][k].arg.tree) : log[c][k].arg.tree[i].path # "card.png"
           /\ req[c].pc = "done" =>
                /\ req[c].result.cardPngContent = None
                /\ req[c].result.characterJsonContent = FileAtCommit(req[c].targetCommitSha, "character.json")[2]
      /\ Len(log[c]) >= 1 /\ log[c][1].res = "notfound" =>
           /\ req[c].pc = "failed" /\ Len(log[c]) = 1
           /\ WriteCalls(c) = {}
           /\ \A b \in Branches : refs[b] # req[c].newCommit

\* C16 witness: a revert to a target that has the document and no image is
\* installed on a branch whose head had an image.
C16_Witness ==
  \E c \in Reqs :
    /\ req[c].op = "revert" /\ req[c].pc = "done"
    /\ log[c][2].res = "notfound"
    /\ FileAtCommit(req[c].latestCommitSha, "card.png") # None
    /\ refs[req[c].branch] = req[c].newCommit


\* C17: createBranch with a base branch reads the head of the base and
\* creates the new ref at exactly that sha; when the base does not exist the
\* operation fails at the lookup with not-found, calls nothing else, creates
\* no ref and writes no seed file.
C17_BranchFromBase ==
  \A c \in Reqs :
    req[c].op = "branch" /\ HasBase(req[c]) =>
      /\ Calls(c, "repos.get") = {} /\ Calls(c, "createOrUpdateFileContents") = {}
      /\ \A k \in Calls(c, "getBranch") : k = 1 /\ log[c][k].arg.branch = req[c].baseBranchName[1]
      /\ \A k \in Calls(c, "createRef") :
           /\ k = 2 /\ log[c][1].res = "ok"
           /\ log[c][k].arg = [ref |-> req[c].branch, sha |-> log[c][1].ret]
      /\ req[c].pc = "done" =>
           /\ refs[req[c].branch] = log[c][1].ret
           /\ refs[req[c].branch][2] \in 1..Len(commits)
      /\ Len(log[c]) >= 1 /\ log[c][1].res = "notfound" =>
           /\ req[c].pc = "failed" /\ req[c].result = "notfound" /\ Len(log[c]) = 1
           /\ req[c].newCommit = None
           /\ (\A d \in Others(c) : req[d].pc # "done") =>
                /\ refs["dev"] = None
                /\ refs["main"] = (IF commits = <<>> THEN None ELSE CommitSha(Len(commits)))

\* C17 witness: "dev" was created from "main" at the second commit of the
\* repository, and the other request asked for a base that does not exist.
C17_Witness ==
  \E c \in Reqs, d \in Reqs :
    /\ req[c].op = "branch" /\ HasBase(req[c]) /\ req[c].pc = "done"
    /\ req[c].branch = "dev" /\ refs["dev"] = CommitSha(2)
    /\ req[d].op = "branch" /\ HasBase(req[d]) /\ req[d].pc = "failed"
    /\ req[d].result = "notfound" /\ req[d].repoUrl = "repo"

\* C18: createBranch without a base branch writes the seed file only after
\* the lookup of the default branch's head failed with not-found; any other
\* failed call of that path (the repository lookup, the ref creation, or a
\* lookup that failed otherwise) ends the operation with that very failure
\* and no seed write follows it.
C18_SeedOnlyOnEmpty ==
  \A c \in Reqs :
    req[c].op = "branch" /\ ~HasBase(req[c]) =>
      /\ \A k \in Calls(c, "createOrUpdateFileContents") :
           \E j \in 1..(k - 1) : log[c][j].api = "getBranch" /\ log[c][j].res = "notfound"
      /\ \A j \in FailedCalls(c) :
           log[c][j].api \in {"repos.get", "createRef"} \/ log[c][j].res # "notfound" =>
             /\ j = Len(log[c])
             /\ req[c].pc = "failed" /\ req[c].result = log[c][j].res

\* a createBranch without base that made the first commit of the repository
Bootstrapped(c) ==
  req[c].op = "branch" /\ ~HasBase(req[c]) /\ req[c].pc = "done" /\ req[c].newCommit = CommitSha(1)

\* the branch of a bootstrap has one commit, without parents, whose tree is
\* README.md alone with the bytes of text; one content write made both
BootstrapHolds(c, text) ==
  /\ refs[req[c].branch] = CommitSha(1)
  /\ CommitOf(CommitSha(1)).parents = <<>>
  /\ TreeOfCommit(CommitSha(1)) =
       [p \in Paths |-> IF p = "README.md" THEN BlobSha(BytesOf(text)) ELSE None]
  /\ Cardinality(Calls(c, "createOrUpdateFileContents")) = 1
  /\ Calls(c, "createRef") = {}
  /\ log[c][Len(log[c])].api = "createOrUpdateFileContents"

\* C19 as stated: on an empty repository createBranch without a base creates
\* the branch with one commit whose tree is README.md with exactly the seed
\* content the caller supplied, and the fixed fallback text when none was
\* supplied; one content write creates the branch and the commit.
C19_SeedExact ==
  \A c \in Reqs :
    Bootstrapped(c) =>
      BootstrapHolds(c, IF req[c].readmeContent # <<>> THEN req[c].readmeContent[1]
                        ELSE DefaultReadme)

\* C19 amended: README.md holds the seed content the caller supplied when it
\* is a non-empty string, and the fixed fallback text when none or the empty
\* string was supplied.
C19_SeedOrFallback ==
  \A c \in Reqs :
    Bootstrapped(c) =>
      BootstrapHolds(c, IF req[c].readmeContent # <<>> /\ req[c].readmeContent # <<EmptyText>>
                        THEN req[c].readmeContent[1]
                        ELSE DefaultReadme)

\* C19 witness: the empty repository got the branch "dev" with a seed the
\* caller supplied, after the lookup of the default branch came back 404.
C19_Witness ==
  \E c \in Reqs :
    /\ Bootstrapped(c) /\ req[c].branch = "dev" /\ req[c].readmeContent = <<Str(1)>>
    /\ log[c][2].api = "getBranch" /\ log[c][2].res = "notfound"
    /\ refs["main"] = None

\* the address names a repository: it parses to a non-empty owner and a
\* non-empty repository name and does not itself end in ".git"
ValidRepoUrl(url) ==
  /\ url.ok /\ url.pathname[Len(url.pathname)] # ".git"
  /\ ~parseRepoUrl(url).threw
  /\ parseRepoUrl(url).owner # <<>> /\ parseRepoUrl(url).repo # <<>>

\* C20: for every valid repository URL parseRepoUrl returns the same owner
\* and repository name for the URL and for the URL with ".git" appended.
C20_DotGitIgnored ==
  ValidRepoUrl(req["r1"].href) /\ req["r1"].pc # "parse" /\ req["r2"].pc # "parse" =>
    /\ req["r2"].href = WithDotGit(req["r1"].href)
    /\ req["r1"].pc = "done" /\ req["r2"].pc = "done"
    /\ req["r1"].result = req["r2"].result

\* C20 witness: "/a/b" and "/a/b.git" were both parsed to owner "a" and
\* repository "b".
C20_Witness ==
  /\ req["r1"].pc = "done" /\ req["r2"].pc = "done"
  /\ req["r1"].href.pathname = <<"/", "a", "/", "b">>
  /\ req["r2"].href.pathname = <<"/", "a", "/", "b", ".git">>
  /\ req["r2"].result = [threw |-> FALSE, owner |-> <<"a">>, repo |-> <<"b">>]

\* the parts of a pathname after normalisation: one more than its separators
Segments(url) == 1 + Cardinality({i \in 1..Len(StripPath(url.pathname)) : StripPath(url.pathname)[i] = "/"})

\* the text is no URL, or its path has fewer than two parts
BadAddress(url) == ~url.ok \/ Segments(url) < 2

\* C21: for an input that is no URL or whose path has fewer than two parts
\* after normalisation parseRepoUrl throws its invalid-address error and
\* returns no owner and repository; an operation called with such an address
\* has failed with that error without a single remote call, and an operation
\* that issued a remote call was given an address with two parts or more.
C21_BadAddressFailsFirst ==
  \A c \in Reqs :
    /\ BadAddress(req[c].href) /\ req[c].pc # "parse" =>
         /\ req[c].op = "parse" /\ req[c].pc = "failed"
         /\ req[c].result = [threw |-> TRUE, owner |-> <<>>, repo |-> <<>>]
         /\ log[c] = <<>>
    /\ log[c] # <<>> => ~BadAddress(req[c].href)
    /\ (\A d \in Reqs : BadAddress(req[d].href)) => refs = InitialRefs /\ Len(commits) = 1

\* C21 witness: an operation called with the one-part address "/a.git" has
\* failed, the text being a URL.
C21_Witness ==
  \E c \in Reqs :
    /\ req[c].href = [ok |-> TRUE, pathname |-> <<"/", "a", ".git">>]
    /\ req[c].pc = "failed" /\ log[c] = <<>>

\* C22: every owner and repository parseRepoUrl returns is non-empty: an
\* address that leaves fewer than two non-empty parts after the leading
\* slash and a trailing ".git" are removed ("/a/", "/a/.git") is rejected.
C22_PartsNonEmpty ==
  \A c \in Reqs :
    req[c].op = "parse" /\ req[c].pc = "done" =>
      req[c].result.owner # <<>> /\ req[c].result.repo # <<>>

\* ---- release publication
\* the release a request created, if any
ReleaseCreated(c) == req[c].op = "release" /\ req[c].releaseId # 0
MissingAssets(c) == {n \in AssetNames : releases[req[c].releaseId].assets[n] = None}
UploadCalls(c, name) ==
  {i \in 1..Len(log[c]) : log[c][i].api = "uploadReleaseAsset" /\ log[c][i].arg.name = name}

\* C23: a publication that created the release but did not attach both assets
\* answers with neither full success nor a failure that hides the release: the
\* answer carries the release that was created.
C23_PartialSurfaced ==
  \A c \in Reqs :
    (req[c].pc = "responded" /\ ReleaseCreated(c) /\ MissingAssets(c) # {})
      => /\ req[c].response.status # 200
         /\ req[c].response.details = ReleaseDetails(req[c].releaseId)

\* C24: the two asset uploads are independent: when the upload of
\* character.json failed, the upload of card.png has still been attempted by
\* the time the request is answered.
C24_UploadsIndependent ==
  \A c \in Reqs :
    (req[c].pc = "responded"
       /\ \E i \in UploadCalls(c, "character.json") : log[c][i].res # "ok")
      => UploadCalls(c, "card.png") # {}

\* ---- no retries
\* a not-found answer the operation takes as "the file is absent": the probe
\* of syncFile and the reads of revertToVersion
AbsorbedNotFound(c, k) == log[c][k].api = "getContent" /\ log[c][k].res = "notfound"
Ended(c) == req[c].pc \in {"failed", "responded"}

LastCall(c) == log[c][Len(log[c])]

\* C26: a content read returns null only after the provider's not-found
\* answer; after any other failure of the content request or of the download
\* it has thrown that error; and a read that returned a value returned the
\* base64 content of the file at that ref with the sha of its blob.
C26_OnlyNotFoundIsAbsent ==
  \A c \in Reqs :
    req[c].op = "read" =>
      /\ req[c].pc = "null" => LastCall(c).res = "notfound"
      /\ req[c].pc \notin {"idle", "getContent", "download"} /\ LastCall(c).res \notin {"ok", "notfound"}
           => req[c].pc = "failed" /\ req[c].result = LastCall(c).res
      /\ req[c].pc = "done" =>
           /\ LastCall(c).res = "ok"
           /\ req[c].result = [content |-> Base64(ReadAt(req[c].hash, req[c].fileName)[2]),
                               sha |-> ReadAt(req[c].hash, req[c].fileName)]

\* C26 amended: null is also what a read returns when the provider answers
\* with a directory listing or with metadata that has neither content nor a
\* download_url; the rest as stated.
C26_AbsentOrNotAFile ==
  \A c \in Reqs :
    req[c].op = "read" =>
      /\ req[c].pc = "null" =>
           \/ LastCall(c).res = "notfound"
           \/ LastCall(c).res = "ok" /\ LastCall(c).ret \in {"directory", "bare"}
      /\ req[c].pc \notin {"idle", "getContent", "download"} /\ LastCall(c).res \notin {"ok", "notfound"}
           => req[c].pc = "failed" /\ req[c].result = LastCall(c).res
      /\ req[c].pc = "done" =>
           /\ LastCall(c).res = "ok"
           /\ req[c].result = [content |-> Base64(ReadAt(req[c].hash, req[c].fileName)[2]),
                               sha |-> ReadAt(req[c].hash, req[c].fileName)]

\* C26 witness: one read threw the error of a failed download, another
\* returned null after a not-found answer, and both had something to read or
\* to miss.
C26_Witness ==
  \E c, d \in Reqs :
    /\ req[c].op = "read" /\ req[c].pc = "failed" /\ req[c].result = "download"
    /\ req[d].op = "read" /\ req[d].pc = "null" /\ LastCall(d).res = "notfound"

\* ---- commit diffs
\* the answer of getCommit names the file and carries a patch for it
HasPatch(c) ==
  /\ LastCall(c).ret # <<>>
  /\ \E f \in LastCall(c).ret[1] : f.filename = req[c].fileName /\ f.patch # <<>>

\* C27: getCommitDiff returns the patch of the named file (its change from
\* the parent to the commit) when the file list of the commit has the file
\* with a patch, and the fixed no-textual-change text, never null, when the
\* file is not in the list, has no patch, or there is no list.
C27_PatchOrSentinel ==
  \A c \in Reqs :
    req[c].op = "diff" /\ req[c].pc = "done" =>
      /\ HasPatch(c) => req[c].result = PatchOf(req[c].hash, req[c].fileName)
      /\ ~HasPatch(c) => req[c].result = NoTextualChange
      /\ req[c].result # None

\* C27 witness: one diff returned a patch; another returned the sentinel for
\* a file that the list of the commit does not name.
C27_Witness ==
  \E c, d \in Reqs :
    /\ req[c].op = "diff" /\ req[c].pc = "done" /\ HasPatch(c)
    /\ req[d].op = "diff" /\ req[d].pc = "done" /\ LastCall(d).ret # <<>>
    /\ ~\E f \in LastCall(d).ret[1] : f.filename = req[d].fileName

\* ---- request timeout
\* C28: every remote call of every operation is bounded by the fixed request
\* timeout: no operation waits for good on a call the provider does not
\* answer, and an operation whose call timed out has failed with the timeout
\* as its last call.
C28_EveryCallBounded ==
  \A c \in Reqs :
    /\ req[c].pc # "hung"
    /\ \A k \in 1..Len(log[c]) :
         log[c][k].res = "timeout" =>
           req[c].pc = "failed" /\ req[c].result = "timeout" /\ k = Len(log[c])

\* ---- session
\* C29: every remote call made while serving a request carries the token of
\* the user who was logged in when the request passed ensureAuthenticated,
\* whatever logout or login callback completes in between.
C29_TokenOfTheRequest ==
  \A c \in Reqs :
    req[c].op = "release" =>
      \A k \in 1..Len(log[c]) : log[c][k].arg.token = req[c].user

\* C30: from the answer of a logout until a login callback sets the user
\* again, restarts included, no user is logged in; and a protected request
\* that arrives when no user is logged in is answered 401.
C30_LoggedOutUntilLogin ==
  /\ loggedOut => loggedInUser = NoUser
  /\ \A c \in Reqs :
       req[c].op = "release" /\ req[c].user = NoUser =>
         req[c].pc = "responded" /\ req[c].response.status = 401

\* ---- branch refs
\* the commits the operations of the requests have created so far
CreatedCommits ==
  UNION {{log[c][k].ret : k \in {i \in 1..Len(log[c]) :
                                   /\ log[c][i].api \in {"createCommit", "createOrUpdateFileContents"}
                                   /\ log[c][i].res = "ok"}} : c \in Reqs}

\* C31: no step of any operation deletes a branch: a branch that exists still
\* exists after the step, and when its head changes the new head is a commit
\* that an operation created.
C31_BranchesNeverDeleted ==
  [][\A b \in Branches :
       refs[b] # None =>
         /\ refs'[b] # None
         /\ refs'[b] # refs[b] => refs'[b] \in CreatedCommits']_vars

\* C31 witness: a branch was created and the head of another was moved.
C31_Witness ==
  /\ refs["dev"] # None
  /\ refs["main"] # CommitSha(1)

\* ---- artifact exchange
ExchangeCalls(c) == {k \in 1..Len(log[c]) : log[c][k].api \in {"export", "import"}}

\* C32: every export and import request sent to the artifact exchange carries
\* the X-CSRF-Token and the Cookie the caller sent on the incoming request,
\* with exactly those values.
C32_HeadersForwarded ==
  \A c \in Reqs : \A k \in ExchangeCalls(c) :
    /\ req[c].headers.csrf # <<>> => log[c][k].arg.headers.csrf = req[c].headers.csrf
    /\ req[c].headers.cookie # <<>> => log[c][k].arg.headers.cookie = req[c].headers.cookie

\* C32 witness: a request that came with both headers has sent its export and
\* its import.
C32_Witness ==
  \E c \in Reqs :
    /\ req[c].headers = [csrf |-> <<"h1">>, cookie |-> <<"h2">>]
    /\ \E k \in ExchangeCalls(c) : log[c][k].api = "import"

\* ---- revert label
RevertCommitCalls(c) ==
  {k \in 1..Len(log[c]) : req[c].op = "revert" /\ log[c][k].api = "createCommit"}

\* C33: the commit a revert creates is labeled "revert to version " followed
\* by the first 7 characters of targetCommitSha.
C33_RevertLabelEnglish ==
  \A c \in Reqs : \A k \in RevertCommitCalls(c) :
    log[c][k].arg.message = <<"revert to version ", ShortSha(req[c].targetCommitSha)>>

\* C33 amended: the label is the fixed text of the source (Chinese for "roll
\* back to version", written here in Latin letters) followed by the first 7
\* characters of targetCommitSha, and the commit the provider stored carries
\* that label.
C33_RevertLabel ==
  \A c \in Reqs : \A k \in RevertCommitCalls(c) :
    /\ log[c][k].arg.message = <<"hui gun dao ban ben ", ShortSha(req[c].targetCommitSha)>>
    /\ log[c][k].res = "ok" => CommitOf(log[c][k].ret).message = log[c][k].arg.message

\* C33 witness: a revert to a commit that is not the head has created its
\* commit.
C33_Witness ==
  \E c \in Reqs : \E k \in RevertCommitCalls(c) :
    log[c][k].res = "ok" /\ req[c].targetCommitSha # req[c].latestCommitSha

\* ---- ensureAuthenticated
\* C34: when a request arrives at a guarded endpoint and no user with an
\* access token is logged in, it is answered 401 at once and its handler
\* never runs: a request answered 401 has made no provider call and no
\* exchange call and never makes one; the handler body is entered only when
\* a user with a token is logged in at that moment.
C34_GuardedEndpoints ==
  [][\A c \in Reqs :
       /\ (req[c].pc = "idle" /\ req'[c].pc # "idle" /\ req'[c].endpoint \in GuardedEndpoints) =>
            IF loggedInUser \in Users
            THEN req'[c].response.status # 401
            ELSE req'[c].pc = "responded" /\ req'[c].response.status = 401 /\ log'[c] = <<>>
       /\ req[c].response.status = 401 => req'[c] = req[c] /\ log'[c] = <<>>]_vars

\* C34 witness: a request was answered 401 while the loaded session had no
\* token.
C34_Witness ==
  \E c \in Reqs :
    /\ req[c].endpoint \in GuardedEndpoints /\ req[c].response.status = 401
    /\ loggedInUser = NoToken

\* ---- read-only operations
ReadOnlyKinds == ReadOps \cup {"diff", "read", "card"}

\* C35: a step of a read-only operation or endpoint (getHistory,
\* getCommitDiff, getBranchHeadSha, getBranches, getReleases, getFileContent,
\* /download_card, /revert_version) leaves every branch ref where it was and
\* creates no blob, tree or commit.
C35_ReadOnlyFrame ==
  [][\A c \in Reqs :
       (req'[c] # req[c] /\ req'[c].op \in ReadOnlyKinds) =>
         UNCHANGED <<refs, commits, blobs, trees>>]_vars

\* C35 witness: /revert_version has answered 200 and a history was returned,
\* in a repository whose "main" is still at its second commit.
C35_Witness ==
  \E c, d \in Reqs :
    /\ req[c].endpoint = "/revert_version" /\ req[c].response.status = 200
    /\ req[d].op = "getHistory" /\ req[d].pc = "done"
    /\ refs["main"] = CommitSha(2)

\* ---- createBranch without a base, repository with history
\* the operation read the head of the default branch
ReadDefaultHead(c) ==
  /\ req[c].op = "branch" /\ ~HasBase(req[c])
  /\ Len(log[c]) >= 2 /\ log[c][2].api = "getBranch" /\ log[c][2].res = "ok"

\* C36: createBranch without a base, in a repository where the default
\* branch has a head, asks for the head of the default branch, creates the
\* new ref at exactly that sha and never writes the seed file; its result
\* and the repository do not depend on the seed content it was given.
C36_BranchFromDefault ==
  \A c \in Reqs :
    ReadDefaultHead(c) =>
      /\ log[c][2].arg.branch = DefaultBranch
      /\ Calls(c, "createOrUpdateFileContents") = {}
      /\ \A k \in Calls(c, "createRef") :
           k = 3 /\ log[c][k].arg = [ref |-> req[c].branch, sha |-> log[c][2].ret]
      /\ req[c].pc = "done" =>
           /\ refs[req[c].branch] = refs[DefaultBranch]
           /\ req[c].result = [ref |-> req[c].branch, sha |-> refs[DefaultBranch]]
           /\ req[c].newCommit = None

\* C36 witness: in a repository with two commits a branch was created without
\* a base although a seed content was supplied.
C36_Witness ==
  \E c \in Reqs :
    /\ ReadDefaultHead(c) /\ req[c].pc = "done"
    /\ req[c].readmeContent = <<Str(1)>>
    /\ Len(commits) = 2 /\ refs[req[c].branch] = CommitSha(2)

\* ---- syncFile, failed read
\* the read of a syncFile call failed with something other than not-found
SyncReadFailed(c) ==
  req[c].op = "sync" /\ Len(log[c]) >= 1 /\ log[c][1].res \notin {"ok", "notfound"}

\* C37: when the initial read of syncFile fails with anything but not-found,
\* the call has failed with that error and the read is its only call: no
\* create-or-update call is made, so that with no other writer the branch and
\* the commits are as they were.
C37_FailedReadStops ==
  \A c \in Reqs :
    SyncReadFailed(c) =>
      /\ req[c].pc = "failed" /\ req[c].result = log[c][1].res
      /\ Len(log[c]) = 1
      /\ (\A d \in Others(c) : OkCalls(d, "createOrUpdateFileContents") = {}) =>
           refs = InitialRefs /\ Len(commits) = 1

\* C37 witness: a call failed at its read while another call wrote the file.
C37_Witness ==
  \E c, d \in Reqs :
    /\ SyncReadFailed(c) /\ req[c].pc = "failed"
    /\ req[d].op = "sync" /\ req[d].pc = "done" /\ req[d].branch = req[c].branch

\* ---- order of the release flow
\* C38: in POST /create_release the release is created before any upload, the
\* upload of character.json comes before the export and the upload of
\* card.png, a failed release creation is followed by no upload, and 200 is
\* answered only after the release and both uploads succeeded.
C38_ReleaseOrder ==
  \A c \in Reqs :
    req[c].op = "release" =>
      LET L == log[c] IN
      /\ Len(L) >= 1 => L[1].api = "createRelease"
      /\ Len(L) >= 2 =>
           /\ L[1].res = "ok"
           /\ L[2].api = "uploadReleaseAsset" /\ L[2].arg.name = "character.json"
      /\ (req[c].cardPngBuffer # None \/ Len(L) >= 3) => (Len(L) >= 2 /\ L[2].res = "ok")
      /\ Len(L) >= 3 =>
           /\ L[3].api = "uploadReleaseAsset" /\ L[3].arg.name = "card.png"
           /\ req[c].cardPngBuffer # None
      /\ Len(L) <= 3
      /\ req[c].response.status = 200 =>
           /\ Len(L) = 3 /\ L[3].res = "ok"
           /\ MissingAssets(c) = {}

\* C38 witness: one publication was answered 200, another failed at the
\* creation of the release.
C38_Witness ==
  \E c, d \in Reqs :
    /\ req[c].op = "release" /\ req[c].response.status = 200
    /\ req[d].op = "release" /\ req[d].response.status = 500
    /\ Len(log[d]) = 1 /\ log[d][1].res # "ok"

\* the successful createBlob call of a commitMultipleFiles operation made for
\* the i-th file of its list
BlobCallsOf(c, i) == {k \in OkCalls(c, "createBlob") : log[c][k].arg.i = i}

\* C39: in commitMultipleFiles, whatever order the createBlob calls complete
\* in, the tree handed to createTree has one entry per input file, in the
\* order of the input list; the i-th entry has the path of the i-th file,
\* mode 100644, type blob, and the sha returned by the createBlob call made
\* from that file's content: a Buffer as its base64 text with encoding
\* base64, a string as it is with encoding utf-8
C39_TreeEntriesPaired ==
  \A c \in Reqs :
    req[c].op = "commit" =>
      \A k \in Calls(c, "createTree") :
        LET tree == log[c][k].arg.tree
            files == req[c].files
        IN
        /\ Len(tree) = Len(files)
        /\ \A i \in 1..Len(files) :
             /\ i <= Len(tree)
             /\ tree[i].path = files[i].path
             /\ tree[i].mode = "100644"
             /\ tree[i].type = "blob"
             /\ tree[i].sha = BlobSha(BytesOf(files[i].content))
             /\ BlobCallsOf(c, i) # {}
             /\ \A j \in BlobCallsOf(c, i) :
                  /\ j < k
                  /\ log[c][j].ret = tree[i].sha
                  /\ log[c][j].arg.content =
                       (IF files[i].content.buf THEN Base64(BytesOf(files[i].content))
                                                ELSE BytesOf(files[i].content))
                  /\ log[c][j].arg.encoding =
                       (IF files[i].content.buf THEN "base64" ELSE "utf-8")

\* a createTree call for two files of different contents, one binary and one
\* text, whose second blob came back before the first
C39_Witness ==
  \E c \in Reqs :
    /\ req[c].op = "commit" /\ Len(req[c].files) = 2
    /\ req[c].files[1].content.data # req[c].files[2].content.data
    /\ req[c].files[1].content.buf # req[c].files[2].content.buf
    /\ Calls(c, "createTree") # {}
    /\ \E j1 \in BlobCallsOf(c, 1) : \E j2 \in BlobCallsOf(c, 2) : j2 < j1

TypeOK ==
  /\ \A b \in Branches : IF refs[b] = None THEN TRUE ELSE refs[b][2] \in 1..Len(commits)
  /\ Len(commits) <= MaxCommits
====
